---- MODULE Spec2Model ----
(***************************************************************************)
(* Model of the WakaWars ranking engine (packages/shared leaderboard) and  *)
(* of the achievement grant store (apps/server repository).                *)
(***************************************************************************)
EXTENDS Integers, Sequences, FiniteSets, TLC

VARIABLES
    stats,          \* input list handed to computeLeaderboard / sliceLeaderboard
    selfUsername,   \* the viewer's username
    op,             \* which ranking function has been applied: "none", "compute", "slice"
    opts,           \* the SliceOptions of the sliceLeaderboard call
    leaderboard,    \* result of computeLeaderboard
    slices,         \* result of sliceLeaderboard
    achievements,   \* the grant store: the rows of ww_user_achievement
    awardCall,      \* per caller, its award*Achievements call and the grants it has left
    prevAward,      \* kind and arguments of the award call that completed last
    awardCount,     \* number of award calls started so far
    upsertCall,     \* per caller, its store.grantAchievement call in flight
    grantCount,     \* number of grantAchievement calls made so far: the clock of awardedAt
    dailyRows,      \* the history in ww_daily_stat, as loadDailyHistory returns it
    weeklyRows,     \* the history in ww_weekly_stat, as loadWeeklyHistory returns it
    backfill,       \* the locals of the runAchievementsBackfill call in progress
    summaries,      \* the summaries returned by the completed backfill runs, in order
    backfillRuns,   \* number of backfill runs started
    dbFailures,     \* number of database errors met by the backfill so far
    honorGrants,    \* the grants list handed to resolveHonorTitlesByUserId
    honorOp,        \* "none", then "resolved" once the titles have been resolved
    honorTitles,    \* the titles resolved from honorGrants, by user id
    honorReordered, \* another order of the same grants and the titles resolved from it
    now,            \* the clock of the sync engine
    syncCache,      \* the in-memory cache: per user, the last fetch result of the period
    dailyStats,     \* the stat store: the rows of ww_daily_stat
    providerCalls,  \* number of calls made to the provider
    syncTask,       \* per caller and user, "idle" or "fetching" (a provider call in flight)
    lastSync,       \* the decision of the last on-demand syncUser call
    statsRead,      \* the last getStats call and the number of getStats calls
    tickRun,        \* the last tick of the periodic loop: who was due, who got persisted
    engine,         \* the periodic timer, and the fetches that were in flight at stop()
    statUpsert,     \* per caller, its store.upsertDailyStat call in flight
    statWrites,     \* the inputs of the upserts that wrote, in the order of their writes
    clientCall,     \* the provider client's call in flight and what came back for it
    clientReturned, \* the results returned by the provider client, in order
    dbRetry,        \* the withDbRetry call in progress: its attempt, the errors met, the delays slept
    users,          \* the user records: per id, wakawarsUsername, statsVisibility, isCompeting
    friendIds,      \* the ids the viewer has added as friends (config.friends)
    incomingFriends,\* the ids of the users who have added the viewer as a friend
    groupPeerIds,   \* the ids of the members of the viewer's groups
    storedStats,    \* per user, the daily stat row stored for the date, if any
    request,        \* the last request of the viewer and the response to it
    accounts,       \* the user table the account requests work on
    accountRequests,\* the account requests under way, by request
    usernameIndex,  \* whether the store has the unique index on the username
    formatInput,    \* the delta and the threshold handed to formatDelta
    formatOutput,   \* the text formatDelta returned, if it has run
    bucketRows,     \* the daily rows handed to createWeeklyBucketsFromDailyHistory
    bucketResult,   \* the buckets it returned, if it has run
    streakKeys,     \* the context keys handed to getLongestConsecutiveWeekStreak
    streakResult,   \* what the call returned, when it has run
    weeklyCacheStats, \* the weekly cache: per user, the cached result if any
    configIsCompeting, \* config.isCompeting of the page
    competitionState, \* the competitionState of the last render
    competitionPendingRef, \* competitionPendingRef.current
    loadStatsSeqRef, \* loadStatsSeqRef.current
    loadCalls,      \* the loadStats calls that sent requests, by requestId
    refreshing,     \* the render handleRefresh runs in, while it awaits
    competitionRequest, \* the debounced POST /competition
    statsFrom       \* who last wrote stats, entries and self entries

rankingVars == <<stats, selfUsername, op, opts, leaderboard, slices>>

awardVars == <<achievements, awardCall, prevAward, awardCount>>

raceVars == <<upsertCall, grantCount>>

backfillVars == <<dailyRows, weeklyRows, backfill, summaries, backfillRuns, dbFailures>>

honorVars == <<honorGrants, honorOp, honorTitles, honorReordered>>

syncVars ==
    <<now, syncCache, dailyStats, providerCalls, syncTask, lastSync, statsRead, tickRun,
      engine>>

statRaceVars == <<statUpsert, statWrites>>

clientVars == <<clientCall, clientReturned>>

retryVars == <<dbRetry>>

socialVars == <<users, friendIds, incomingFriends, groupPeerIds, storedStats, request>>

accountVars == <<accounts, accountRequests, usernameIndex>>

formatVars == <<formatInput, formatOutput>>

bucketVars == <<bucketRows, bucketResult>>

streakVars == <<streakKeys, streakResult>>

weeklyVars == <<weeklyCacheStats>>

webVars == <<configIsCompeting, competitionState, competitionPendingRef, loadStatsSeqRef, loadCalls, refreshing, competitionRequest, statsFrom>>

vars == <<rankingVars, awardVars, raceVars, backfillVars, honorVars, syncVars, statRaceVars,
      clientVars, retryVars, socialVars, accountVars, formatVars, bucketVars, streakVars,
      weeklyVars, webVars>>

\* What the actions of one component leave alone
rankingFrame == <<awardVars, raceVars, backfillVars, honorVars, syncVars, statRaceVars,
      clientVars, retryVars, socialVars, accountVars, formatVars, bucketVars, streakVars,
      weeklyVars, webVars>>

awardFrame == <<rankingVars, raceVars, backfillVars, honorVars, syncVars, statRaceVars,
      clientVars, retryVars, socialVars, accountVars, formatVars, bucketVars, streakVars,
      weeklyVars, webVars>>

raceFrame ==
    <<rankingVars, awardCall, prevAward, awardCount, backfillVars, honorVars, syncVars,
      statRaceVars, clientVars, retryVars, socialVars, accountVars, formatVars,
      bucketVars, streakVars, weeklyVars, webVars>>

backfillFrame ==
    <<rankingVars, awardCall, prevAward, awardCount, raceVars, honorVars, syncVars,
      statRaceVars, clientVars, retryVars, socialVars, accountVars, formatVars,
      bucketVars, streakVars, weeklyVars, webVars>>

honorFrame == <<rankingVars, awardVars, raceVars, backfillVars, syncVars, statRaceVars,
      clientVars, retryVars, socialVars, accountVars, formatVars, bucketVars, streakVars,
      weeklyVars, webVars>>

syncFrame ==
    <<rankingVars, awardCall, prevAward, awardCount, raceVars, backfillVars, honorVars,
      statRaceVars, clientVars, retryVars, socialVars, accountVars, formatVars,
      bucketVars, streakVars, weeklyVars, webVars>>

statRaceFrame ==
    <<rankingVars, awardVars, raceVars, backfillVars, honorVars, now, syncCache,
      providerCalls, syncTask, lastSync, statsRead, tickRun, engine, clientVars,
      retryVars, socialVars, accountVars, formatVars, bucketVars, streakVars, weeklyVars,
      webVars>>

clientFrame ==
    <<rankingVars, awardVars, raceVars, backfillVars, honorVars,
      syncVars, statRaceVars, retryVars, socialVars, accountVars, formatVars, bucketVars,
      streakVars, weeklyVars, webVars>>

retryFrame ==
    <<rankingVars, awardVars, raceVars, backfillVars, honorVars,
      syncVars, statRaceVars, clientVars, socialVars, accountVars, formatVars,
      bucketVars, streakVars, weeklyVars, webVars>>

socialFrame ==
    <<rankingVars, awardCall, prevAward, awardCount, raceVars, backfillVars, honorVars,
      syncVars, statRaceVars, clientVars, retryVars, accountVars, formatVars, bucketVars,
      streakVars, weeklyVars, webVars>>

accountFrame ==
    <<rankingVars, awardVars, raceVars, backfillVars, honorVars,
      syncVars, statRaceVars, clientVars, retryVars, socialVars, formatVars, bucketVars,
      streakVars, weeklyVars, webVars>>

formatFrame ==
    <<rankingVars, awardVars, raceVars, backfillVars, honorVars,
      syncVars, statRaceVars, clientVars, retryVars, socialVars, accountVars, bucketVars,
      streakVars, weeklyVars, webVars>>

bucketFrame ==
    <<rankingVars, awardVars, raceVars, backfillVars, honorVars,
      syncVars, statRaceVars, clientVars, retryVars, socialVars, accountVars,
      formatVars, streakVars, weeklyVars, webVars>>

streakFrame ==
    <<rankingVars, awardVars, raceVars, backfillVars, honorVars,
      syncVars, statRaceVars, clientVars, retryVars, socialVars, accountVars,
      formatVars, bucketVars, weeklyVars, webVars>>

weeklyFrame ==
    <<rankingVars, awardVars, raceVars, backfillVars, honorVars,
      syncVars, statRaceVars, clientVars, retryVars, socialVars, accountVars,
      formatVars, bucketVars, streakVars, webVars>>

webFrame ==
    <<rankingVars, awardVars, raceVars, backfillVars, honorVars,
      syncVars, statRaceVars, clientVars, retryVars, socialVars, accountVars,
      formatVars, bucketVars, streakVars, weeklyVars>>

-----------------------------------------------------------------------------
(* Bounds of the ranking inputs *)

MaxLen == 3
MaxSeconds == 2
MaxPodiumCount == 2
MaxAroundCount == 1

(* Bounds of the achievement runs *)

MaxAwardCalls == 2
MaxTime == 2

Usernames == {"amy", "ben", "mo"}
SelfUsernames == Usernames \cup {"zoe"}

-----------------------------------------------------------------------------
(* Optional values: null / undefined is the empty set, a value v is {v} *)

Null == {}
Some(v) == {v}
Val(o) == CHOOSE v \in o : TRUE

Min(a, b) == IF a <= b THEN a ELSE b
Max(a, b) == IF a >= b THEN a ELSE b

-----------------------------------------------------------------------------
(* types.ts *)

DailyStatStatus == {"ok", "private", "not_found", "error"}

DailyStat == [username : Usernames, totalSeconds : 0..MaxSeconds, status : DailyStatStatus]

-----------------------------------------------------------------------------
(* leaderboard.ts *)

\* mutant: private accounts sort before ok ones
statusOrder_privateFirst == [ok |-> 1, private |-> 0, not_found |-> 2, error |-> 3]

statusOrder == [ok |-> 0, private |-> 1, not_found |-> 2, error |-> 3]

\* Collation position of a username: localeCompare orders the lower-case
\* ASCII names of the model alphabetically.
CollationKey(u) ==
    CASE u = "amy" -> 1
      [] u = "ben" -> 2
      [] u = "mo"  -> 3
      [] u = "zoe" -> 4

localeCompare(a, b) ==
    IF CollationKey(a) < CollationKey(b) THEN -1
    ELSE IF CollationKey(a) > CollationKey(b) THEN 1
    ELSE 0

\* mutant: the time key compared ascending
compareStats_timeAscending(a, b) ==
    LET statusDelta == statusOrder[a.status] - statusOrder[b.status]
        timeDelta == a.totalSeconds - b.totalSeconds
    IN  IF statusDelta # 0 THEN statusDelta
        ELSE IF timeDelta # 0 THEN timeDelta
        ELSE localeCompare(a.username, b.username)

\* The comparator of sortStats: negative when a sorts before b.
compareStats(a, b) ==
    LET statusDelta == statusOrder[a.status] - statusOrder[b.status]
        timeDelta == b.totalSeconds - a.totalSeconds
    IN  IF statusDelta # 0 THEN statusDelta
        ELSE IF timeDelta # 0 THEN timeDelta
        ELSE localeCompare(a.username, b.username)

\* Array.prototype.sort is stable: x goes after every element that does not
\* compare greater than it.
RECURSIVE InsertStable(_, _)
InsertStable(sorted, x) ==
    IF sorted = <<>> THEN <<x>>
    ELSE IF compareStats(Head(sorted), x) <= 0
         THEN <<Head(sorted)>> \o InsertStable(Tail(sorted), x)
         ELSE <<x>> \o sorted

RECURSIVE SortFrom(_, _)
SortFrom(sorted, rest) ==
    IF rest = <<>> THEN sorted
    ELSE SortFrom(InsertStable(sorted, Head(rest)), Tail(rest))

sortStats(list) == SortFrom(<<>>, list)

\* ordered.filter((entry) => entry.status === "ok")
filterOk(list) == LET IsOk(entry) == entry.status = "ok" IN SelectSeq(list, IsOk)

\* findIndex((entry) => entry.username === username): 0-based index of the
\* first match, -1 when there is none
findIndexByUsername(list, username) ==
    IF \E i \in 1..Len(list) : list[i].username = username
    THEN (CHOOSE i \in 1..Len(list) :
             /\ list[i].username = username
             /\ \A j \in 1..(i - 1) : list[j].username # username) - 1
    ELSE -1

\* find((entry) => entry.username === username): the first match, if any
findByUsername(list, username) ==
    LET i == findIndexByUsername(list, username)
    IN  IF i >= 0 THEN Some(list[i + 1]) ELSE Null

\* Array.prototype.slice(start, end) with its clamping of both ends
slice(list, start, end) ==
    LET len == Len(list)
        from == IF start < 0 THEN Max(len + start, 0) ELSE Min(start, len)
        to == IF end < 0 THEN Max(len + end, 0) ELSE Min(end, len)
    IN  IF from >= to THEN <<>> ELSE SubSeq(list, from + 1, to)

\* mutant: every ranked entry starts a new rank, tie or not
RECURSIVE RankFrom_alwaysRenew(_, _, _, _, _, _)
RankFrom_alwaysRenew(ordered, index, currentRank, lastSeconds, shouldBreakAllZeroTies, selfSeconds) ==
    IF index >= Len(ordered) THEN <<>>
    ELSE
        LET entry == ordered[index + 1]
            isRanked == entry.status = "ok"
        IN  <<[rank |-> IF isRanked THEN Some(index + 1) ELSE Null,
               deltaSeconds |-> entry.totalSeconds - selfSeconds] @@ entry>>
            \o RankFrom_alwaysRenew(ordered, index + 1, index + 1, lastSeconds,
                                    shouldBreakAllZeroTies, selfSeconds)

\* The map callback of computeLeaderboard, run over ordered[index..]; index
\* is 0-based, lastSeconds is an optional number.
RECURSIVE RankFrom(_, _, _, _, _, _)
RankFrom(ordered, index, currentRank, lastSeconds, shouldBreakAllZeroTies, selfSeconds) ==
    IF index >= Len(ordered) THEN <<>>
    ELSE
        LET entry == ordered[index + 1]
            isRanked == entry.status = "ok"
            renew == isRanked /\ (shouldBreakAllZeroTies
                                  \/ lastSeconds = Null
                                  \/ entry.totalSeconds # Val(lastSeconds))
            rank == IF renew THEN index + 1 ELSE currentRank
            last == IF renew THEN Some(entry.totalSeconds) ELSE lastSeconds
        IN  <<[rank |-> IF isRanked THEN Some(rank) ELSE Null,
               deltaSeconds |-> entry.totalSeconds - selfSeconds] @@ entry>>
            \o RankFrom(ordered, index + 1, rank, last, shouldBreakAllZeroTies, selfSeconds)

\* mutant: the map runs over the ranked list, dropping the unranked entries
computeLeaderboard_dropsUnranked(list, self) ==
    LET ordered == sortStats(list)
        ranked == filterOk(ordered)
        shouldBreakAllZeroTies ==
            Len(ranked) > 0 /\ \A i \in 1..Len(ranked) : ranked[i].totalSeconds = 0
        selfEntry == findByUsername(ordered, self)
        selfSeconds == IF selfEntry = Null THEN 0 ELSE Val(selfEntry).totalSeconds
    IN  RankFrom(ranked, 0, 0, Null, shouldBreakAllZeroTies, selfSeconds)

\* mutant: the all-zero cohort is ranked like any other tie
computeLeaderboard_noZeroTieBreak(list, self) ==
    LET ordered == sortStats(list)
        selfEntry == findByUsername(ordered, self)
        selfSeconds == IF selfEntry = Null THEN 0 ELSE Val(selfEntry).totalSeconds
    IN  RankFrom(ordered, 0, 0, Null, FALSE, selfSeconds)

\* mutant: self is looked up in the unsorted input
computeLeaderboard_selfFromInput(list, self) ==
    LET ordered == sortStats(list)
        ranked == filterOk(ordered)
        shouldBreakAllZeroTies ==
            Len(ranked) > 0 /\ \A i \in 1..Len(ranked) : ranked[i].totalSeconds = 0
        selfEntry == findByUsername(list, self)
        selfSeconds == IF selfEntry = Null THEN 0 ELSE Val(selfEntry).totalSeconds
    IN  RankFrom(ordered, 0, 0, Null, shouldBreakAllZeroTies, selfSeconds)

computeLeaderboard(list, self) ==
    LET ordered == sortStats(list)
        ranked == filterOk(ordered)
        shouldBreakAllZeroTies ==
            Len(ranked) > 0 /\ \A i \in 1..Len(ranked) : ranked[i].totalSeconds = 0
        selfEntry == findByUsername(ordered, self)
        selfSeconds == IF selfEntry = Null THEN 0 ELSE Val(selfEntry).totalSeconds
    IN  RankFrom(ordered, 0, 0, Null, shouldBreakAllZeroTies, selfSeconds)

\* The body of sliceLeaderboard from the three lists on: the picked set, rest
\* and the returned object.
SliceResult(ordered, ranked, podium, nearMe, selfIndex) ==
    LET picked == {podium[i].username : i \in 1..Len(podium)}
                      \cup {nearMe[i].username : i \in 1..Len(nearMe)}
        NotPicked(entry) == entry.username \notin picked
    IN  [ordered |-> ordered,
         podium |-> podium,
         nearMe |-> nearMe,
         rest |-> SelectSeq(ordered, NotPicked),
         selfEntry |-> IF selfIndex >= 0 THEN Some(ranked[selfIndex + 1]) ELSE Null,
         leaderEntry |-> IF Len(ranked) > 0 THEN Some(ranked[1]) ELSE Null]

\* mutant: rest is the whole ordered list, picked or not
sliceLeaderboard_restUnfiltered(entries, self, podiumCount, aroundCount) ==
    LET ordered == sortStats(entries)
        ranked == filterOk(ordered)
        selfIndex == findIndexByUsername(ranked, self)
        nearMe ==
            IF selfIndex >= 0
            THEN slice(ranked, Max(0, selfIndex - aroundCount),
                       Min(Len(ranked), selfIndex + aroundCount + 1))
            ELSE <<>>
    IN  [SliceResult(ordered, ranked, slice(ranked, 0, podiumCount), nearMe, selfIndex)
             EXCEPT !.rest = ordered]

\* mutant: the window's end is not made exclusive (the + 1 is missing)
sliceLeaderboard_windowOffByOne(entries, self, podiumCount, aroundCount) ==
    LET ordered == sortStats(entries)
        ranked == filterOk(ordered)
        selfIndex == findIndexByUsername(ranked, self)
        nearMe ==
            IF selfIndex >= 0
            THEN slice(ranked, Max(0, selfIndex - aroundCount),
                       Min(Len(ranked), selfIndex + aroundCount))
            ELSE <<>>
    IN  SliceResult(ordered, ranked, slice(ranked, 0, podiumCount), nearMe, selfIndex)

\* mutant: the podium is cut from the ordered list, unranked entries included
sliceLeaderboard_podiumFromOrdered(entries, self, podiumCount, aroundCount) ==
    LET ordered == sortStats(entries)
        ranked == filterOk(ordered)
        selfIndex == findIndexByUsername(ranked, self)
        nearMe ==
            IF selfIndex >= 0
            THEN slice(ranked, Max(0, selfIndex - aroundCount),
                       Min(Len(ranked), selfIndex + aroundCount + 1))
            ELSE <<>>
    IN  SliceResult(ordered, ranked, slice(ordered, 0, podiumCount), nearMe, selfIndex)

sliceLeaderboard(entries, self, podiumCount, aroundCount) ==
    LET ordered == sortStats(entries)
        ranked == filterOk(ordered)
        podium == slice(ranked, 0, podiumCount)
        selfIndex == findIndexByUsername(ranked, self)
        nearMe ==
            IF selfIndex >= 0
            THEN slice(ranked, Max(0, selfIndex - aroundCount),
                       Min(Len(ranked), selfIndex + aroundCount + 1))
            ELSE <<>>
    IN  SliceResult(ordered, ranked, podium, nearMe, selfIndex)

\* The ranking engine at rest: no list has been handed to it
InitRankingVars ==
    /\ stats = <<>>
    /\ selfUsername = "mo"
    /\ op = "none"
    /\ opts = [podiumCount |-> 0, aroundCount |-> 0]
    /\ leaderboard = <<>>
    /\ slices = sliceLeaderboard(<<>>, "mo", 0, 0)

-----------------------------------------------------------------------------
(* repository.ts: the achievement grant store *)

AchievementContextKind == {"daily", "weekly"}

\* mutant: no stored row is ever taken for the row of the input's tuple
SameGrantTuple_neverMatches(entry, input) == FALSE

\* The where clause of the upsert / the findIndex test of the memory store
SameGrantTuple(entry, input) ==
    /\ entry.userId = input.userId
    /\ entry.achievementId = input.achievementId
    /\ entry.contextKind = input.contextKind
    /\ entry.contextKey = input.contextKey

GrantRecord(input) ==
    [userId |-> input.userId,
     achievementId |-> input.achievementId,
     contextKind |-> input.contextKind,
     contextKey |-> input.contextKey,
     awardedAt |-> input.awardedAt,
     metadata |-> input.metadata]

\* mutant: the row is inserted without looking for an existing one
grantAchievement_alwaysInsert(rows, input) == Append(rows, GrantRecord(input))

\* grantAchievement: replace the row of the same tuple in place, else append
grantAchievement(rows, input) ==
    IF \E i \in 1..Len(rows) : SameGrantTuple(rows[i], input)
    THEN LET existingIndex == CHOOSE i \in 1..Len(rows) :
                 /\ SameGrantTuple(rows[i], input)
                 /\ \A j \in 1..(i - 1) : ~SameGrantTuple(rows[j], input)
         IN  [index \in 1..Len(rows) |->
                 IF index = existingIndex THEN GrantRecord(input) ELSE rows[index]]
    ELSE Append(rows, GrantRecord(input))

-----------------------------------------------------------------------------
(* achievements.ts: the award entry points *)

Hour == 3600

UserIds == {1, 2}
DateKeys == {"2026-02-01", "2026-02-02"}
RangeKeys == {"last_7_days"}
Callers == {"tick", "manual"}

\* The catalog, in declaration order: id, context kind and threshold in seconds
ACHIEVEMENT_DEFINITIONS ==
    <<[id |-> "quick-boot-4h", contextKind |-> "daily", minSeconds |-> 4 * Hour],
      [id |-> "focus-reactor-6h", contextKind |-> "daily", minSeconds |-> 6 * Hour],
      [id |-> "workweek-warrior-40h", contextKind |-> "weekly", minSeconds |-> 40 * Hour],
      [id |-> "ship-it-60h", contextKind |-> "weekly", minSeconds |-> 60 * Hour]>>

\* ISO week of a fetch time; the model's clock has two ticks per week
toIsoWeekKey(fetchedAt) ==
    CASE fetchedAt \in {1, 2} -> "2026-W05"
      [] fetchedAt \in {3, 4} -> "2026-W06"
      [] OTHER -> "2026-W07"

DailyAwardArgs ==
    [userId : UserIds, periodKey : DateKeys, status : DailyStatStatus,
     totalSeconds : {0, 4 * Hour, 6 * Hour}, fetchedAt : 1..MaxTime]

WeeklyAwardArgs ==
    [userId : UserIds, periodKey : RangeKeys, status : DailyStatStatus,
     totalSeconds : {0, 40 * Hour, 60 * Hour}, fetchedAt : 1..MaxTime]

\* mutant: the predicate looks at the seconds only
Qualifies_ignoresStatus(definition, contextKind, args) ==
    /\ definition.contextKind = contextKind
    /\ args.totalSeconds >= definition.minSeconds

\* A definition's predicate: it fires only for an ok result of its own kind
\* that reaches its threshold.
Qualifies(definition, contextKind, args) ==
    /\ definition.contextKind = contextKind
    /\ args.status = "ok"
    /\ args.totalSeconds >= definition.minSeconds

ContextKey(contextKind, args) ==
    IF contextKind = "daily" THEN args.periodKey ELSE toIsoWeekKey(args.fetchedAt)

\* The grants an award call makes, in catalog order
GrantsOf(contextKind, args) ==
    LET Fires(definition) == Qualifies(definition, contextKind, args)
        fired == SelectSeq(ACHIEVEMENT_DEFINITIONS, Fires)
    IN  [k \in 1..Len(fired) |->
            [userId |-> args.userId,
             achievementId |-> fired[k].id,
             contextKind |-> contextKind,
             contextKey |-> ContextKey(contextKind, args),
             awardedAt |-> args.fetchedAt,
             metadata |-> Null]]

IdleCall ==
    [active |-> FALSE, contextKind |-> "daily", args |-> Null, todo |-> <<>>,
     repeat |-> FALSE, added |-> 0]

InitAwardVars ==
    /\ achievements = <<>>
    /\ awardCall = [c \in Callers |-> IdleCall]
    /\ prevAward = Null
    /\ awardCount = 0

\* A caller enters award*Achievements: the catalog is evaluated and the
\* grants to make are lined up; with none to make the call returns at once.
StartAward(c, contextKind, args) ==
    /\ ~awardCall[c].active
    /\ awardCount < MaxAwardCalls
    /\ awardCount' = awardCount + 1
    /\ LET todo == GrantsOf(contextKind, args)
       IN  /\ awardCall' = [awardCall EXCEPT ![c] =
                   [active |-> todo # <<>>,
                    contextKind |-> contextKind,
                    args |-> Some(args),
                    todo |-> todo,
                    repeat |-> prevAward = Some([contextKind |-> contextKind, args |-> args]),
                    added |-> 0]]
           /\ prevAward' = IF todo = <<>>
                           THEN Some([contextKind |-> contextKind, args |-> args])
                           ELSE prevAward
    /\ UNCHANGED achievements

AwardDailyAchievements(c) ==
    \E args \in DailyAwardArgs : StartAward(c, "daily", args)

AwardWeeklyAchievements(c) ==
    \E args \in WeeklyAwardArgs : StartAward(c, "weekly", args)

\* The call's next await store.grantAchievement(...); the call returns after
\* its last grant.
GrantAchievement(c) ==
    /\ awardCall[c].active
    /\ LET call == awardCall[c]
           rows == grantAchievement(achievements, Head(call.todo))
           left == Tail(call.todo)
       IN  /\ achievements' = rows
           /\ awardCall' = [awardCall EXCEPT ![c] =
                   [call EXCEPT !.todo = left,
                                !.active = left # <<>>,
                                !.added = call.added + (Len(rows) - Len(achievements))]]
           /\ prevAward' = IF left = <<>>
                           THEN Some([contextKind |-> call.contextKind, args |-> Val(call.args)])
                           ELSE prevAward
    /\ UNCHANGED awardCount

-----------------------------------------------------------------------------
(* repository.ts: store.grantAchievement called by racing callers.         *)
(* The memory store runs findIndex and the assignment without an await in  *)
(* between. The Prisma store hands the upsert to the database, whose        *)
(* unique index on (user_id, achievement_key, context_kind, context_key)   *)
(* is named by the where clause: the database runs it either as one         *)
(* statement, or as a select followed by an insert or an update, and an     *)
(* insert that meets a row of the same tuple is refused by the index.       *)

MaxGrantCalls == 3

\* The tuples the racing callers grant under: they differ in each coordinate
RaceTuples ==
    {<<1, "quick-boot-4h", "daily", "2026-02-01">>,
     <<1, "quick-boot-4h", "daily", "2026-02-02">>,
     <<1, "focus-reactor-6h", "daily", "2026-02-01">>,
     <<2, "quick-boot-4h", "daily", "2026-02-01">>,
     <<1, "workweek-warrior-40h", "weekly", "2026-W05">>}

RaceMetadata == {Null, Some("streak")}

GrantInput(tuple, awardedAt, metadata) ==
    [userId |-> tuple[1],
     achievementId |-> tuple[2],
     contextKind |-> tuple[3],
     contextKey |-> tuple[4],
     awardedAt |-> awardedAt,
     metadata |-> metadata]

IdleUpsert == [pc |-> "idle", input |-> Null, found |-> FALSE, outcome |-> "none"]

InitRaceVars ==
    /\ upsertCall = [c \in Callers |-> IdleUpsert]
    /\ grantCount = 0

\* A caller calls store.grantAchievement(input)
CallGrantAchievement(c) ==
    /\ upsertCall[c].pc = "idle"
    /\ grantCount < MaxGrantCalls
    /\ grantCount' = grantCount + 1
    /\ \E tuple \in RaceTuples, metadata \in RaceMetadata :
           upsertCall' = [upsertCall EXCEPT ![c] =
               [pc |-> "called",
                input |-> Some(GrantInput(tuple, grantCount + 1, metadata)),
                found |-> FALSE,
                outcome |-> "none"]]
    /\ UNCHANGED achievements

\* The where clause of the upsert finds a row
RowExists(rows, input) == \E i \in 1..Len(rows) : SameGrantTuple(rows[i], input)

\* The upsert done in one step: the memory store, or a single statement
UpsertAtOnce(c) ==
    /\ upsertCall[c].pc = "called"
    /\ LET input == Val(upsertCall[c].input)
       IN  /\ achievements' = grantAchievement(achievements, input)
           /\ upsertCall' = [upsertCall EXCEPT ![c] =
                  [IdleUpsert EXCEPT !.outcome =
                      IF RowExists(achievements, input) THEN "updated" ELSE "created"]]
    /\ UNCHANGED grantCount

\* The upsert done in two statements, first the select by the unique tuple
UpsertSelect(c) ==
    /\ upsertCall[c].pc = "called"
    /\ upsertCall' = [upsertCall EXCEPT ![c] =
           [@ EXCEPT !.pc = "selected",
                     !.found = RowExists(achievements, Val(upsertCall[c].input))]]
    /\ UNCHANGED <<achievements, grantCount>>

\* mutant: the table has no unique index on the tuple
UniqueIndexRefuses_noIndex(rows, input) == FALSE

\* The unique index refuses the insert of a tuple the table already holds
UniqueIndexRefuses(rows, input) == RowExists(rows, input)

\* ... then the update of the row found, or the insert of the create data,
\* which the unique index refuses when another caller has inserted the tuple
\* in between: the call then rejects and the store is left as it was.
UpsertWrite(c) ==
    /\ upsertCall[c].pc = "selected"
    /\ LET input == Val(upsertCall[c].input)
           refused == ~upsertCall[c].found /\ UniqueIndexRefuses(achievements, input)
       IN  /\ achievements' =
                  IF upsertCall[c].found
                  THEN [index \in 1..Len(achievements) |->
                           IF SameGrantTuple(achievements[index], input)
                           THEN GrantRecord(input)
                           ELSE achievements[index]]
                  ELSE IF refused THEN achievements
                  ELSE Append(achievements, GrantRecord(input))
           /\ upsertCall' = [upsertCall EXCEPT ![c] =
                  [IdleUpsert EXCEPT !.outcome =
                      IF refused THEN "rejected"
                      ELSE IF upsertCall[c].found THEN "updated" ELSE "created"]]
    /\ UNCHANGED grantCount

-----------------------------------------------------------------------------
(* backfill-achievements.ts: isRetryableDatabaseError and withDbRetry *)

\* BACKFILL_DB_RETRY_ATTEMPTS unset: the default
DB_RETRY_ATTEMPTS == 6

\* Delays in units of 100 ms: BACKFILL_DB_RETRY_BASE_DELAY_MS=500 and
\* BACKFILL_DB_RETRY_MAX_DELAY_MS=5000, the defaults
DB_RETRY_BASE_DELAY_MS == 5
DB_RETRY_MAX_DELAY_MS == 50

RETRYABLE_PRISMA_CODES == {"P1001", "P1002", "P1017"}

\* Error messages, word by word
DbErrorMessages ==
    {<<"Can't", "reach", "database", "server", "at", "db:5432">>,
     <<"Connection", "terminated", "unexpectedly">>,
     <<"read", "ECONNRESET">>,
     <<"Connection", "reset", "by", "peer">>,
     <<"Unique", "constraint", "failed">>}

\* What a store operation can reject with
DbErrors ==
    {[class |-> "PrismaClientInitializationError", code |-> "", message |-> message] :
        message \in {<<"Can't", "reach", "database", "server", "at", "db:5432">>}}
    \cup {[class |-> "PrismaClientKnownRequestError", code |-> code,
           message |-> <<"Server", "has", "closed", "the", "connection">>] :
             code \in {"P1001", "P1002", "P1017"}}
    \cup {[class |-> "PrismaClientKnownRequestError", code |-> "P2002", message |-> message] :
             message \in {<<"Unique", "constraint", "failed">>,
                          <<"Connection", "reset", "by", "peer">>}}
    \cup {[class |-> "Error", code |-> "", message |-> message] :
             message \in DbErrorMessages}

toLowerCaseWord(word) ==
    CASE word = "Can't" -> "can't"
      [] word = "Connection" -> "connection"
      [] word = "ECONNRESET" -> "econnreset"
      [] word = "Unique" -> "unique"
      [] OTHER -> word

toLowerCase(message) == [i \in 1..Len(message) |-> toLowerCaseWord(message[i])]

includes(message, phrase) ==
    \E i \in 1..(Len(message) - Len(phrase) + 1) :
        SubSeq(message, i, i + Len(phrase) - 1) = phrase

\* mutant: every known request error is retried
isRetryableDatabaseError_anyKnownRequest(error) ==
    IF error.class = "PrismaClientInitializationError" THEN TRUE
    ELSE IF error.class = "PrismaClientKnownRequestError" THEN TRUE
    ELSE LET message == toLowerCase(error.message)
         IN  \/ includes(message, <<"can't", "reach", "database", "server">>)
             \/ includes(message, <<"connection", "terminated">>)
             \/ includes(message, <<"connection", "reset">>)

isRetryableDatabaseError(error) ==
    IF error.class = "PrismaClientInitializationError" THEN TRUE
    ELSE IF error.class = "PrismaClientKnownRequestError"
    THEN error.code \in RETRYABLE_PRISMA_CODES
    ELSE LET message == toLowerCase(error.message)
         IN  \/ includes(message, <<"can't", "reach", "database", "server">>)
             \/ includes(message, <<"connection", "terminated">>)
             \/ includes(message, <<"connection", "reset">>)

\* The store operations the backfill wraps
DbRetryLabels == {"count achievements before", "load daily history"}

IdleDbRetry ==
    [pc |-> "idle", label |-> "", attempt |-> 1, errors |-> <<>>, delays |-> <<>>,
     thrown |-> Null]

InitRetryVars == dbRetry = IdleDbRetry

\* withDbRetry({prisma, label, run}) is entered
CallWithDbRetry(label) ==
    /\ dbRetry.pc \in {"idle", "returned", "thrown"}
    /\ dbRetry' = [IdleDbRetry EXCEPT !.pc = "running", !.label = label]

\* run() resolves and its value is returned
RunResolves ==
    /\ dbRetry.pc = "running"
    /\ dbRetry' = [dbRetry EXCEPT !.pc = "returned"]

\* mutant: the attempt that reaches the limit is retried once more
RunRejects_oneMoreAttempt(error) ==
    /\ dbRetry.pc = "running"
    /\ IF ~isRetryableDatabaseError(error) \/ dbRetry.attempt > DB_RETRY_ATTEMPTS
       THEN dbRetry' = [dbRetry EXCEPT !.pc = "thrown",
                                       !.errors = Append(@, error),
                                       !.thrown = Some(error)]
       ELSE dbRetry' = [dbRetry EXCEPT
                !.errors = Append(@, error),
                !.delays = Append(@, Min(DB_RETRY_MAX_DELAY_MS,
                                         DB_RETRY_BASE_DELAY_MS * 2 ^ (dbRetry.attempt - 1))),
                !.attempt = @ + 1]

\* run() rejects: the error is rethrown, or after a reconnect (which may
\* itself fail) and a sleep the loop goes round again
RunRejects(error) ==
    /\ dbRetry.pc = "running"
    /\ IF ~isRetryableDatabaseError(error) \/ dbRetry.attempt >= DB_RETRY_ATTEMPTS
       THEN dbRetry' = [dbRetry EXCEPT !.pc = "thrown",
                                       !.errors = Append(@, error),
                                       !.thrown = Some(error)]
       ELSE dbRetry' = [dbRetry EXCEPT
                !.errors = Append(@, error),
                !.delays = Append(@, Min(DB_RETRY_MAX_DELAY_MS,
                                         DB_RETRY_BASE_DELAY_MS * 2 ^ (dbRetry.attempt - 1))),
                !.attempt = @ + 1]

-----------------------------------------------------------------------------
(* scripts/backfill-achievements.ts: runAchievementsBackfill.               *)
(* The clock counts days: 1 is 2026-01-31, 2 is 2026-02-01 (both in ISO    *)
(* week 5), 3 and 4 are 2026-02-02 and 2026-02-03 (ISO week 6).            *)

MaxBackfillRuns == 2
MaxDbFailures == 2

\* null for a key that is not YYYY-MM-DD or names no day
parseDateKey(dateKey) ==
    CASE dateKey = "2026-01-31" -> Some(1)
      [] dateKey = "2026-02-01" -> Some(2)
      [] dateKey = "2026-02-02" -> Some(3)
      [] dateKey = "2026-02-03" -> Some(4)
      [] OTHER -> Null

toDateKey(value) ==
    CASE value = 1 -> "2026-01-31"
      [] value = 2 -> "2026-02-01"
      [] value = 3 -> "2026-02-02"
      [] value = 4 -> "2026-02-03"

toDailyStatus(value) == IF value \in DailyStatStatus THEN value ELSE "error"

\* The keys of ww_daily_stat in the order of ORDER BY user_id, date_key
DailySlots ==
    <<[user_id |-> 1, date_key |-> "2026-02-01"],
      [user_id |-> 1, date_key |-> "2026-02-02"],
      [user_id |-> 1, date_key |-> "2026-02-03"],
      [user_id |-> 2, date_key |-> "2026-02-02"]>>

DailyRowValues ==
    {[status |-> "ok", total_seconds |-> 4 * Hour],
     [status |-> "ok", total_seconds |-> 20 * Hour],
     [status |-> "rate_limited", total_seconds |-> 20 * Hour]}

\* loadDailyHistory: the rows present, each fetched on its own day, the
\* payload column always NULL
loadDailyHistory(pick) ==
    LET all == [i \in 1..Len(DailySlots) |-> [slot |-> DailySlots[i], value |-> pick[i]]]
        Present(e) == e.value # Null
        present == SelectSeq(all, Present)
    IN  [i \in 1..Len(present) |->
            [user_id |-> present[i].slot.user_id,
             date_key |-> present[i].slot.date_key,
             total_seconds |-> Val(present[i].value).total_seconds,
             status |-> Val(present[i].value).status,
             fetched_at |-> Val(parseDateKey(present[i].slot.date_key)),
             payload |-> Null]]

\* The keys of ww_weekly_stat in the order of ORDER BY user_id, fetched_at
WeeklySlots == <<[user_id |-> 1, range_key |-> "last_7_days"],
                 [user_id |-> 2, range_key |-> "last_7_days"]>>

WeeklyRowValues ==
    {[status |-> "ok", total_seconds |-> 40 * Hour, fetched_at |-> 2],
     [status |-> "ok", total_seconds |-> 40 * Hour, fetched_at |-> 4],
     [status |-> "error", total_seconds |-> 60 * Hour, fetched_at |-> 4]}

loadWeeklyHistory(pick) ==
    LET all == [i \in 1..Len(WeeklySlots) |-> [slot |-> WeeklySlots[i], value |-> pick[i]]]
        Present(e) == e.value # Null
        present == SelectSeq(all, Present)
    IN  [i \in 1..Len(present) |->
            [user_id |-> present[i].slot.user_id,
             range_key |-> present[i].slot.range_key,
             total_seconds |-> Val(present[i].value).total_seconds,
             status |-> Val(present[i].value).status,
             fetched_at |-> Val(present[i].value).fetched_at]]

\* buckets.get(key): the position of the bucket of a user and ISO week, else 0
BucketIndex(buckets, userId, isoWeekKey) ==
    IF \E i \in 1..Len(buckets) :
           buckets[i].userId = userId /\ buckets[i].isoWeekKey = isoWeekKey
    THEN CHOOSE i \in 1..Len(buckets) :
             buckets[i].userId = userId /\ buckets[i].isoWeekKey = isoWeekKey
    ELSE 0

RECURSIVE BucketsFrom(_, _, _)
BucketsFrom(buckets, rows, weeklyRangeKey) ==
    IF rows = <<>> THEN buckets
    ELSE LET row == Head(rows)
             dayDate == parseDateKey(row.date_key)
             isoWeekKey == toIsoWeekKey(Val(dayDate))
             day == [dateKey |-> row.date_key,
                     totalSeconds |-> row.total_seconds,
                     fetchedAt |-> row.fetched_at]
             existing == BucketIndex(buckets, row.user_id, isoWeekKey)
             next ==
                 IF toDailyStatus(row.status) # "ok" THEN buckets
                 ELSE IF dayDate = Null THEN buckets
                 ELSE IF existing = 0
                 THEN Append(buckets,
                          [userId |-> row.user_id,
                           isoWeekKey |-> isoWeekKey,
                           rangeKey |-> weeklyRangeKey,
                           fetchedAt |-> row.fetched_at,
                           days |-> <<day>>])
                 ELSE [buckets EXCEPT ![existing] =
                          [@ EXCEPT !.days = Append(@, day),
                                    !.fetchedAt = Max(@, row.fetched_at)]]
         IN  BucketsFrom(next, Tail(rows), weeklyRangeKey)

\* mutant: rows of every status are put into the buckets
createWeeklyBucketsFromDailyHistory_anyStatus(rows, weeklyRangeKey) ==
    BucketsFrom(<<>>, [i \in 1..Len(rows) |-> [rows[i] EXCEPT !.status = "ok"]],
                weeklyRangeKey)

createWeeklyBucketsFromDailyHistory(rows, weeklyRangeKey) ==
    BucketsFrom(<<>>, rows, weeklyRangeKey)

\* bucket.days.reduce((sum, day) => sum + day.totalSeconds, 0)
RECURSIVE SumSeconds(_)
SumSeconds(days) ==
    IF days = <<>> THEN 0 ELSE Head(days).totalSeconds + SumSeconds(Tail(days))

\* The grants of one award call, made one after the other
RECURSIVE ApplyGrants(_, _)
ApplyGrants(rows, todo) ==
    IF todo = <<>> THEN rows
    ELSE ApplyGrants(grantAchievement(rows, Head(todo)), Tail(todo))

IdleBackfill ==
    [phase |-> "idle", index |-> 1, attempt |-> 1, achievementsBefore |-> 0,
     weeklyBuckets |-> <<>>, awardedWeeklyContexts |-> {},
     dailyAwardsProcessed |-> 0, weeklyAwardsProcessed |-> 0]

InitBackfillVars ==
    /\ dailyRows = <<>>
    /\ weeklyRows = <<>>
    /\ backfill = IdleBackfill
    /\ summaries = <<>>
    /\ backfillRuns = 0
    /\ dbFailures = 0

\* The run starts: the grants are counted and the history is loaded
StartBackfill ==
    /\ backfill.phase \in {"idle", "aborted"}
    /\ backfillRuns < MaxBackfillRuns
    /\ backfillRuns' = backfillRuns + 1
    /\ backfill' = [IdleBackfill EXCEPT !.phase = "daily",
                                        !.achievementsBefore = Len(achievements)]
    /\ UNCHANGED <<achievements, dailyRows, weeklyRows, summaries, dbFailures>>

\* mutant: after a retryable error the loop moves on to the next call
AwardWithDbRetry_movesOn(contextKind, args, done) ==
    LET todo == GrantsOf(contextKind, args)
    IN  \/ /\ achievements' = ApplyGrants(achievements, todo)
           /\ backfill' = done
           /\ UNCHANGED dbFailures
        \/ /\ dbFailures < MaxDbFailures
           /\ dbFailures' = dbFailures + 1
           /\ \E made \in 0..(Len(todo) - 1) :
                  achievements' = ApplyGrants(achievements, SubSeq(todo, 1, made))
           /\ \E error \in DbErrors :
                  backfill' =
                      IF isRetryableDatabaseError(error)
                         /\ backfill.attempt < DB_RETRY_ATTEMPTS
                      THEN done
                      ELSE [backfill EXCEPT !.phase = "aborted"]

\* withDbRetry around one award call: the call resolves, or a database error
\* interrupts it after some of its grants; a retryable error below the
\* attempt limit runs the call again, any other error ends the run.
AwardWithDbRetry(contextKind, args, done) ==
    LET todo == GrantsOf(contextKind, args)
    IN  \/ /\ achievements' = ApplyGrants(achievements, todo)
           /\ backfill' = done
           /\ UNCHANGED dbFailures
        \/ /\ dbFailures < MaxDbFailures
           /\ dbFailures' = dbFailures + 1
           /\ \E made \in 0..(Len(todo) - 1) :
                  achievements' = ApplyGrants(achievements, SubSeq(todo, 1, made))
           /\ \E error \in DbErrors :
                  backfill' =
                      IF isRetryableDatabaseError(error)
                         /\ backfill.attempt < DB_RETRY_ATTEMPTS
                      THEN [backfill EXCEPT !.attempt = @ + 1]
                      ELSE [backfill EXCEPT !.phase = "aborted"]

\* One turn of the loop over dailyRows
AwardDailyRow ==
    /\ backfill.phase = "daily"
    /\ backfill.index <= Len(dailyRows)
    /\ LET row == dailyRows[backfill.index]
       IN  AwardWithDbRetry("daily",
               [userId |-> row.user_id,
                periodKey |-> row.date_key,
                status |-> toDailyStatus(row.status),
                totalSeconds |-> row.total_seconds,
                fetchedAt |-> row.fetched_at],
               [backfill EXCEPT !.index = @ + 1,
                                !.attempt = 1,
                                !.dailyAwardsProcessed = @ + 1])
    /\ UNCHANGED <<dailyRows, weeklyRows, summaries, backfillRuns>>

\* After the daily loop the weekly buckets are derived from the daily rows
BuildWeeklyBuckets ==
    /\ backfill.phase = "daily"
    /\ backfill.index > Len(dailyRows)
    /\ backfill' = [backfill EXCEPT
           !.phase = "buckets",
           !.index = 1,
           !.weeklyBuckets = createWeeklyBucketsFromDailyHistory(dailyRows, "last_7_days")]
    /\ UNCHANGED <<achievements, dailyRows, weeklyRows, summaries, backfillRuns, dbFailures>>

\* One turn of the loop over weeklyBuckets
AwardWeeklyBucket ==
    /\ backfill.phase = "buckets"
    /\ backfill.index <= Len(backfill.weeklyBuckets)
    /\ LET bucket == backfill.weeklyBuckets[backfill.index]
       IN  AwardWithDbRetry("weekly",
               [userId |-> bucket.userId,
                periodKey |-> bucket.rangeKey,
                status |-> "ok",
                totalSeconds |-> SumSeconds(bucket.days),
                fetchedAt |-> bucket.fetchedAt],
               [backfill EXCEPT
                   !.index = @ + 1,
                   !.attempt = 1,
                   !.awardedWeeklyContexts =
                       @ \cup {<<bucket.userId, bucket.rangeKey, bucket.isoWeekKey>>},
                   !.weeklyAwardsProcessed = @ + 1])
    /\ UNCHANGED <<dailyRows, weeklyRows, summaries, backfillRuns>>

StartWeeklyFallback ==
    /\ backfill.phase = "buckets"
    /\ backfill.index > Len(backfill.weeklyBuckets)
    /\ backfill' = [backfill EXCEPT !.phase = "fallback", !.index = 1]
    /\ UNCHANGED <<achievements, dailyRows, weeklyRows, summaries, backfillRuns, dbFailures>>

\* mutant: every weekly row is replayed, whatever the buckets have covered
AwardWeeklyFallback_replaysAll ==
    /\ backfill.phase = "fallback"
    /\ backfill.index <= Len(weeklyRows)
    /\ LET row == weeklyRows[backfill.index]
       IN  AwardWithDbRetry("weekly",
                    [userId |-> row.user_id,
                     periodKey |-> row.range_key,
                     status |-> toDailyStatus(row.status),
                     totalSeconds |-> row.total_seconds,
                     fetchedAt |-> row.fetched_at],
                    [backfill EXCEPT !.index = @ + 1,
                                     !.attempt = 1,
                                     !.weeklyAwardsProcessed = @ + 1])
    /\ UNCHANGED <<dailyRows, weeklyRows, summaries, backfillRuns>>

\* One turn of the loop over weeklyRows: a row whose week a bucket has
\* covered is passed over
AwardWeeklyFallback ==
    /\ backfill.phase = "fallback"
    /\ backfill.index <= Len(weeklyRows)
    /\ LET row == weeklyRows[backfill.index]
           parsed == parseDateKey(toDateKey(row.fetched_at))
           contextKey == <<row.user_id, row.range_key, toIsoWeekKey(Val(parsed))>>
       IN  IF parsed = Null \/ contextKey \in backfill.awardedWeeklyContexts
           THEN /\ backfill' = [backfill EXCEPT !.index = @ + 1]
                /\ UNCHANGED <<achievements, dbFailures>>
           ELSE AwardWithDbRetry("weekly",
                    [userId |-> row.user_id,
                     periodKey |-> row.range_key,
                     status |-> toDailyStatus(row.status),
                     totalSeconds |-> row.total_seconds,
                     fetchedAt |-> row.fetched_at],
                    [backfill EXCEPT !.index = @ + 1,
                                     !.attempt = 1,
                                     !.weeklyAwardsProcessed = @ + 1])
    /\ UNCHANGED <<dailyRows, weeklyRows, summaries, backfillRuns>>

\* The grants are counted again and the summary is returned
FinishBackfill ==
    /\ backfill.phase = "fallback"
    /\ backfill.index > Len(weeklyRows)
    /\ summaries' = Append(summaries,
           [achievementsBefore |-> backfill.achievementsBefore,
            achievementsAfter |-> Len(achievements),
            achievementsCreated |-> Len(achievements) - backfill.achievementsBefore,
            dailyRows |-> Len(dailyRows),
            weeklyRows |-> Len(weeklyRows),
            weeklyBuckets |-> Len(backfill.weeklyBuckets),
            dailyAwardsProcessed |-> backfill.dailyAwardsProcessed,
            weeklyAwardsProcessed |-> backfill.weeklyAwardsProcessed])
    /\ backfill' = [backfill EXCEPT !.phase = "idle"]
    /\ UNCHANGED <<achievements, dailyRows, weeklyRows, backfillRuns, dbFailures>>

-----------------------------------------------------------------------------
(* honor-titles.ts: resolveHonorTitlesByUserId.                             *)
(* Times are counted in days from Monday 2024-12-30, the first day of ISO   *)
(* week 1 of 2025; Monday 2025-12-29 (day 364) is the first day of ISO week *)
(* 1 of 2026.                                                               *)

MaxHonorGrants == 4

WORKWEEK_WARRIOR_40H == "workweek-warrior-40h"

\* One week in days
WEEK_MS == 7

\* The title of an achievement id; an id without an entry gets the default
TITLE_BY_ACHIEVEMENT_ID(achievementId) ==
    CASE achievementId = "quick-boot-4h" -> "Daybreak Sprinter"
      [] achievementId = "focus-reactor-6h" -> "Focus Reactor"
      [] achievementId = "streak-forge-8h" -> "Green Wall Initiate"
      [] achievementId = "overclocked-core-10h" -> "Overclock Core"
      [] achievementId = "merge-mountain-12h" -> "Merge Mountain Slayer"
      [] achievementId = "night-shift-14h" -> "Night Shift Sentinel"
      [] achievementId = "legendary-commit-16h" -> "Commit Overlord"
      [] achievementId = "boss-raid-20h" -> "Boss Raider"
      [] achievementId = "weekend-warrior-8h" -> "Weekend Warrior"
      [] achievementId = "weekend-overdrive-12h" -> "Weekend Overdrive"
      [] achievementId = "solo-day-8h" -> "Solo Blade"
      [] achievementId = "switchblade-day-8h" -> "Switchblade"
      [] achievementId = "mono-language-day-8h" -> "Mono Tongue"
      [] achievementId = "language-juggler-day-8h" -> "Language Juggler"
      [] achievementId = "deep-focus-day-8h" -> "Deep Focus Diver"
      [] achievementId = "workweek-warrior-40h" -> "Workweek Warrior"
      [] achievementId = "ship-it-60h" -> "Release Captain"
      [] achievementId = "green-wall-80h" -> "Green Wall Commander"
      [] achievementId = "graph-overflow-100h" -> "Graph Breaker"
      [] achievementId = "matrix-120h" -> "Matrix Sovereign"
      [] achievementId = "mono-stack-80h" -> "Solo Stack Hero"
      [] achievementId = "mono-stack-100h" -> "Solo Stack Mythic"
      [] achievementId = "polyglot-stack-80h" -> "Polyglot General"
      [] achievementId = "language-hydra-80h" -> "Language Hydra"
      [] achievementId = "language-spectrum-80h" -> "Spectrum Master"
      [] achievementId = "editor-arsenal-80h" -> "Editor Arsenal"
      [] achievementId = "project-monolith-80h" -> "Monolith Architect"
      [] achievementId = "project-nomad-80h" -> "Project Nomad"
      [] achievementId = "seven-sunrise-week" -> "Seven Sunrises"
      [] achievementId = "iron-week-4h" -> "Iron Week"
      [] achievementId = "marathon-pace-8h" -> "Marathon Coder"
      [] achievementId = "ultra-pace-10h" -> "Turbo Engine"
      [] OTHER -> "Achievement Hunter"

\* The static priority of an achievement id; an id without an entry gets 0
ACHIEVEMENT_PRIORITY(achievementId) ==
    CASE achievementId = "quick-boot-4h" -> 1
      [] achievementId = "focus-reactor-6h" -> 2
      [] achievementId = "streak-forge-8h" -> 3
      [] achievementId = "overclocked-core-10h" -> 4
      [] achievementId = "merge-mountain-12h" -> 5
      [] achievementId = "night-shift-14h" -> 6
      [] achievementId = "legendary-commit-16h" -> 8
      [] achievementId = "boss-raid-20h" -> 10
      [] achievementId = "weekend-warrior-8h" -> 2
      [] achievementId = "weekend-overdrive-12h" -> 4
      [] achievementId = "solo-day-8h" -> 3
      [] achievementId = "switchblade-day-8h" -> 4
      [] achievementId = "mono-language-day-8h" -> 4
      [] achievementId = "language-juggler-day-8h" -> 5
      [] achievementId = "deep-focus-day-8h" -> 4
      [] achievementId = "workweek-warrior-40h" -> 5
      [] achievementId = "ship-it-60h" -> 6
      [] achievementId = "green-wall-80h" -> 7
      [] achievementId = "graph-overflow-100h" -> 9
      [] achievementId = "matrix-120h" -> 10
      [] achievementId = "mono-stack-80h" -> 7
      [] achievementId = "mono-stack-100h" -> 9
      [] achievementId = "polyglot-stack-80h" -> 7
      [] achievementId = "language-hydra-80h" -> 8
      [] achievementId = "language-spectrum-80h" -> 9
      [] achievementId = "editor-arsenal-80h" -> 8
      [] achievementId = "project-monolith-80h" -> 7
      [] achievementId = "project-nomad-80h" -> 7
      [] achievementId = "seven-sunrise-week" -> 4
      [] achievementId = "iron-week-4h" -> 6
      [] achievementId = "marathon-pace-8h" -> 7
      [] achievementId = "ultra-pace-10h" -> 8
      [] OTHER -> 0

\* Position of an achievement id in the collation order of localeCompare
AchievementCollationKey(achievementId) ==
    CASE achievementId = "boss-raid-20h" -> 1
      [] achievementId = "deep-focus-day-8h" -> 2
      [] achievementId = "editor-arsenal-80h" -> 3
      [] achievementId = "focus-reactor-6h" -> 4
      [] achievementId = "graph-overflow-100h" -> 5
      [] achievementId = "green-wall-80h" -> 6
      [] achievementId = "iron-week-4h" -> 7
      [] achievementId = "language-hydra-80h" -> 8
      [] achievementId = "language-juggler-day-8h" -> 9
      [] achievementId = "language-spectrum-80h" -> 10
      [] achievementId = "legendary-commit-16h" -> 11
      [] achievementId = "marathon-pace-8h" -> 12
      [] achievementId = "matrix-120h" -> 13
      [] achievementId = "merge-mountain-12h" -> 14
      [] achievementId = "mono-language-day-8h" -> 15
      [] achievementId = "mono-stack-100h" -> 16
      [] achievementId = "mono-stack-80h" -> 17
      [] achievementId = "night-shift-14h" -> 18
      [] achievementId = "overclocked-core-10h" -> 19
      [] achievementId = "polyglot-stack-80h" -> 20
      [] achievementId = "project-monolith-80h" -> 21
      [] achievementId = "project-nomad-80h" -> 22
      [] achievementId = "quick-boot-4h" -> 23
      [] achievementId = "seven-sunrise-week" -> 24
      [] achievementId = "ship-it-60h" -> 25
      [] achievementId = "solo-day-8h" -> 26
      [] achievementId = "streak-forge-8h" -> 27
      [] achievementId = "switchblade-day-8h" -> 28
      [] achievementId = "ultra-pace-10h" -> 29
      [] achievementId = "weekend-overdrive-12h" -> 30
      [] achievementId = "weekend-warrior-8h" -> 31
      [] achievementId = "workweek-warrior-40h" -> 32
      [] OTHER -> 33

\* a.localeCompare(b) on achievement ids
localeCompareIds(a, b) == AchievementCollationKey(a) - AchievementCollationKey(b)

getIsoWeekStartMs(year, week) ==
    IF week < 1 \/ week > 53 THEN Null
    ELSE LET weekOneMondayMs == IF year = 2025 THEN 0 ELSE 364
         IN  Some(weekOneMondayMs + (week - 1) * WEEK_MS)

\* contextKey.match(/(\d{4})-W(\d{2})$/): the year and the week, when it matches
IsoWeekMatch(contextKey) ==
    CASE contextKey = "2025-W52" -> Some(<<2025, 52>>)
      [] contextKey = "2026-W01" -> Some(<<2026, 1>>)
      [] contextKey = "2026-W02" -> Some(<<2026, 2>>)
      [] contextKey = "2026-W03" -> Some(<<2026, 3>>)
      [] contextKey = "2026-W04" -> Some(<<2026, 4>>)
      [] contextKey = "2026-W05" -> Some(<<2026, 5>>)
      [] contextKey = "2026-W06" -> Some(<<2026, 6>>)
      [] contextKey = "2026-W07" -> Some(<<2026, 7>>)
      [] contextKey = "2026-W08" -> Some(<<2026, 8>>)
      [] contextKey = "2026-W09" -> Some(<<2026, 9>>)
      [] contextKey = "2025-W53" -> Some(<<2025, 53>>)
      [] contextKey = "2026-W00" -> Some(<<2026, 0>>)
      [] contextKey = "2026-W54" -> Some(<<2026, 54>>)
      [] contextKey = "weekly:2026-W02" -> Some(<<2026, 2>>)
      [] OTHER -> Null

parseIsoWeekFromContextKey(contextKey) ==
    LET match == IsoWeekMatch(contextKey)
    IN  IF match = Null THEN Null
        ELSE getIsoWeekStartMs(Val(match)[1], Val(match)[2])

\* Array.from(new Set(list)): the first occurrence of each value, in order
RECURSIVE DedupeFrom(_, _)
DedupeFrom(seen, list) ==
    IF list = <<>> THEN seen
    ELSE IF \E i \in 1..Len(seen) : seen[i] = Head(list)
         THEN DedupeFrom(seen, Tail(list))
         ELSE DedupeFrom(Append(seen, Head(list)), Tail(list))

RECURSIVE InsertAscending(_, _)
InsertAscending(sorted, x) ==
    IF sorted = <<>> THEN <<x>>
    ELSE IF Head(sorted) - x <= 0
         THEN <<Head(sorted)>> \o InsertAscending(Tail(sorted), x)
         ELSE <<x>> \o sorted

RECURSIVE SortAscendingFrom(_, _)
SortAscendingFrom(sorted, rest) ==
    IF rest = <<>> THEN sorted
    ELSE SortAscendingFrom(InsertAscending(sorted, Head(rest)), Tail(rest))

\* mutant: the week starts are left in the order of the grants
sortAscending_unsorted(list) == list

\* .sort((a, b) => a - b)
sortAscending(list) == SortAscendingFrom(<<>>, list)

\* The forEach of getLongestConsecutiveWeekStreak
RECURSIVE StreakFrom(_, _, _, _)
StreakFrom(weekStarts, longest, current, previous) ==
    IF weekStarts = <<>> THEN longest
    ELSE LET weekStart == Head(weekStarts)
             next == IF previous # Null /\ weekStart - Val(previous) = WEEK_MS
                     THEN current + 1
                     ELSE 1
         IN  StreakFrom(Tail(weekStarts), Max(longest, next), next, Some(weekStart))

\* mutant: the week starts are not passed through a Set
getLongestConsecutiveWeekStreak_noSet(contextKeys) ==
    LET parsed == [i \in 1..Len(contextKeys) |-> parseIsoWeekFromContextKey(contextKeys[i])]
        NotNull(value) == value # Null
        kept == SelectSeq(parsed, NotNull)
        values == [i \in 1..Len(kept) |-> Val(kept[i])]
        weekStarts == sortAscending(values)
    IN  StreakFrom(weekStarts, 0, 0, Null)

getLongestConsecutiveWeekStreak(contextKeys) ==
    LET parsed == [i \in 1..Len(contextKeys) |-> parseIsoWeekFromContextKey(contextKeys[i])]
        NotNull(value) == value # Null
        kept == SelectSeq(parsed, NotNull)
        values == [i \in 1..Len(kept) |-> Val(kept[i])]
        weekStarts == sortAscending(DedupeFrom(<<>>, values))
    IN  StreakFrom(weekStarts, 0, 0, Null)

\* A Map<string, number> is the sequence of its entries in insertion order
getCount(counts, achievementId) ==
    IF \E i \in 1..Len(counts) : counts[i].achievementId = achievementId
    THEN LET i == CHOOSE i \in 1..Len(counts) : counts[i].achievementId = achievementId
         IN  counts[i].count
    ELSE 0

resolveComboHonorTitle(achievementCounts, weeklyFortyContextKeys) ==
    LET weeklyFortyStreak == getLongestConsecutiveWeekStreak(weeklyFortyContextKeys)
    IN  IF weeklyFortyStreak >= 8 THEN Some("Emperor of Weeks")
        ELSE IF weeklyFortyStreak >= 4 THEN Some("Sultan of Weeks")
        ELSE IF getCount(achievementCounts, "matrix-120h") >= 2
        THEN Some("Matrix Deity")
        ELSE IF getCount(achievementCounts, "graph-overflow-100h") >= 2
        THEN Some("Overflow Breaker")
        ELSE IF getCount(achievementCounts, "green-wall-80h") >= 4
        THEN Some("Eternal Green Wall")
        ELSE IF /\ getCount(achievementCounts, "language-spectrum-80h") >= 1
                /\ getCount(achievementCounts, "editor-arsenal-80h") >= 1
        THEN Some("Master of All Trades")
        ELSE IF /\ getCount(achievementCounts, "mono-stack-100h") >= 1
                /\ getCount(achievementCounts, "project-monolith-80h") >= 1
        THEN Some("Solo Stack Titan")
        ELSE IF /\ getCount(achievementCounts, "ultra-pace-10h") >= 2
                /\ getCount(achievementCounts, "iron-week-4h") >= 2
        THEN Some("Unstoppable Machine")
        ELSE Null

\* mutant: equal priorities are settled by the achievement id alone
compareRanked_ignoresCount(a, b) ==
    IF a.priority # b.priority THEN b.priority - a.priority
    ELSE localeCompareIds(a.achievementId, b.achievementId)

\* The comparator of resolveTopAchievementTitle
compareRanked(a, b) ==
    IF a.priority # b.priority THEN b.priority - a.priority
    ELSE IF a.count # b.count THEN b.count - a.count
    ELSE localeCompareIds(a.achievementId, b.achievementId)

RECURSIVE InsertRanked(_, _)
InsertRanked(sorted, x) ==
    IF sorted = <<>> THEN <<x>>
    ELSE IF compareRanked(Head(sorted), x) <= 0
         THEN <<Head(sorted)>> \o InsertRanked(Tail(sorted), x)
         ELSE <<x>> \o sorted

RECURSIVE SortRankedFrom(_, _)
SortRankedFrom(sorted, rest) ==
    IF rest = <<>> THEN sorted
    ELSE SortRankedFrom(InsertRanked(sorted, Head(rest)), Tail(rest))

resolveTopAchievementTitle(achievementCounts) ==
    LET Positive(entry) == entry.count > 0
        entries == SelectSeq(achievementCounts, Positive)
        mapped == [i \in 1..Len(entries) |->
                      [achievementId |-> entries[i].achievementId,
                       count |-> entries[i].count,
                       title |-> TITLE_BY_ACHIEVEMENT_ID(entries[i].achievementId),
                       priority |-> ACHIEVEMENT_PRIORITY(entries[i].achievementId)]]
        ranked == SortRankedFrom(<<>>, mapped)
    IN  IF ranked = <<>> THEN Null ELSE Some(ranked[1].title)

\* mutant: the priority fallback is consulted before the combo rules
resolveHonorTitle_priorityFirst(achievementCounts, weeklyFortyContextKeys) ==
    LET topTitle == resolveTopAchievementTitle(achievementCounts)
    IN  IF topTitle # Null THEN topTitle
        ELSE resolveComboHonorTitle(achievementCounts, weeklyFortyContextKeys)

resolveHonorTitle(achievementCounts, weeklyFortyContextKeys) ==
    LET comboTitle == resolveComboHonorTitle(achievementCounts, weeklyFortyContextKeys)
    IN  IF comboTitle # Null THEN comboTitle
        ELSE resolveTopAchievementTitle(achievementCounts)

\* countsByUserId.get(userId) after the grants.forEach
RECURSIVE CountsFrom(_, _, _)
CountsFrom(counts, grants, userId) ==
    IF grants = <<>> THEN counts
    ELSE LET grant == Head(grants)
             next ==
                 IF grant.userId # userId THEN counts
                 ELSE IF \E i \in 1..Len(counts) : counts[i].achievementId = grant.achievementId
                 THEN [i \in 1..Len(counts) |->
                          IF counts[i].achievementId = grant.achievementId
                          THEN [counts[i] EXCEPT !.count = @ + 1]
                          ELSE counts[i]]
                 ELSE Append(counts, [achievementId |-> grant.achievementId, count |-> 1])
         IN  CountsFrom(next, Tail(grants), userId)

\* weeklyFortyContextKeysByUserId.get(userId) after the grants.forEach
WeeklyFortyContextKeys(grants, userId) ==
    LET Forty(grant) ==
            /\ grant.userId = userId
            /\ grant.achievementId = WORKWEEK_WARRIOR_40H
            /\ grant.contextKind = "weekly"
        kept == SelectSeq(grants, Forty)
    IN  [i \in 1..Len(kept) |-> kept[i].contextKey]

resolveHonorTitlesByUserId(userIds, grants) ==
    [userId \in {userIds[i] : i \in 1..Len(userIds)} |->
        resolveHonorTitle(CountsFrom(<<>>, grants, userId),
                          WeeklyFortyContextKeys(grants, userId))]

\* The users whose titles are asked for; user 3 has no grant
HonorUserIds == <<1, 2, 3>>

HonorGrant(userId, achievementId, contextKind, contextKey) ==
    [userId |-> userId, achievementId |-> achievementId,
     contextKind |-> contextKind, contextKey |-> contextKey]

\* Grants that short lists are drawn from
HonorGrantChoices ==
    {HonorGrant(1, WORKWEEK_WARRIOR_40H, "weekly", "2025-W52"),
     HonorGrant(1, WORKWEEK_WARRIOR_40H, "weekly", "2026-W01"),
     HonorGrant(1, WORKWEEK_WARRIOR_40H, "weekly", "2026-W02"),
     HonorGrant(1, WORKWEEK_WARRIOR_40H, "weekly", "2026-W03"),
     HonorGrant(1, "green-wall-80h", "weekly", "2026-W01"),
     HonorGrant(1, "mono-stack-80h", "weekly", "2026-W02"),
     HonorGrant(2, "quick-boot-4h", "daily", "2026-02-01")}

WeekKeys ==
    <<"2025-W52", "2026-W01", "2026-W02", "2026-W03", "2026-W04",
      "2026-W05", "2026-W06", "2026-W07", "2026-W08">>

\* Sets of weeks (positions in WeekKeys) of the workweek-warrior-40h grants
WeekProfiles ==
    {{}, 1..3, 1..4, 2..8, 1..8, 2..9, (1..3) \cup (5..9), (1..3) \cup (5..7) \cup {9}}

\* The unlock counts of user 1 that long lists are built from
HonorProfiles ==
    [weeks : WeekProfiles,
     matrix : 0..2, graphOverflow : 0..2, greenWall : {0, 1, 4},
     spectrum : 0..1, arsenal : 0..1, monoStack : 0..1, monolith : 0..1,
     ultra : 0..2, iron : 0..2, bossRaid : 0..1]

\* count grants of one achievement, under the first weeks
Repeated(achievementId, count) ==
    [k \in 1..count |-> HonorGrant(1, achievementId, "weekly", WeekKeys[k])]

GrantsOfProfile(profile) ==
    LET Chosen(k) == k \in profile.weeks
        weeks == SelectSeq([k \in 1..Len(WeekKeys) |-> k], Chosen)
    IN  <<HonorGrant(2, "quick-boot-4h", "daily", "2026-02-01")>>
        \o Repeated("boss-raid-20h", profile.bossRaid)
        \o Repeated("iron-week-4h", profile.iron)
        \o [i \in 1..Len(weeks) |->
               HonorGrant(1, WORKWEEK_WARRIOR_40H, "weekly", WeekKeys[weeks[Len(weeks) + 1 - i]])]
        \o Repeated("ultra-pace-10h", profile.ultra)
        \o Repeated("project-monolith-80h", profile.monolith)
        \o Repeated("mono-stack-100h", profile.monoStack)
        \o Repeated("editor-arsenal-80h", profile.arsenal)
        \o Repeated("language-spectrum-80h", profile.spectrum)
        \o Repeated("green-wall-80h", profile.greenWall)
        \o Repeated("graph-overflow-100h", profile.graphOverflow)
        \o Repeated("matrix-120h", profile.matrix)

\* The orders a list is resolved in again: every order of a short list, the
\* given and the reverse order of a long one
Orderings(n) ==
    IF n <= MaxHonorGrants THEN Permutations(1..n)
    ELSE {[i \in 1..n |-> i], [i \in 1..n |-> n + 1 - i]}

Reorder(list, order) == [i \in 1..Len(list) |-> list[order[i]]]

InitHonorVars ==
    /\ honorGrants = <<>>
    /\ honorOp = "none"
    /\ honorTitles = resolveHonorTitlesByUserId(<<>>, <<>>)
    /\ honorReordered = [order |-> <<>>, titles |-> resolveHonorTitlesByUserId(<<>>, <<>>)]

\* One call on the grants, and one on the same grants in another order
ResolveHonorTitlesByUserId ==
    /\ honorOp = "none"
    /\ honorOp' = "resolved"
    /\ honorTitles' = resolveHonorTitlesByUserId(HonorUserIds, honorGrants)
    /\ \E order \in Orderings(Len(honorGrants)) :
           honorReordered' =
               [order |-> order,
                titles |-> resolveHonorTitlesByUserId(HonorUserIds,
                                                      Reorder(honorGrants, order))]
    /\ UNCHANGED honorGrants

-----------------------------------------------------------------------------
(* repository.ts: the stat store *)

SameStatKey(stat, input) ==
    /\ stat.userId = input.userId
    /\ stat.dateKey = input.dateKey

StatRecord(input) ==
    [userId |-> input.userId,
     dateKey |-> input.dateKey,
     totalSeconds |-> input.totalSeconds,
     status |-> input.status,
     error |-> input.error,
     fetchedAt |-> input.fetchedAt]

\* upsertDailyStat: replace the row of (userId, dateKey) in place, else append
upsertDailyStat(rows, input) ==
    IF \E i \in 1..Len(rows) : SameStatKey(rows[i], input)
    THEN LET existingIndex == CHOOSE i \in 1..Len(rows) :
                 /\ SameStatKey(rows[i], input)
                 /\ \A j \in 1..(i - 1) : ~SameStatKey(rows[j], input)
         IN  [index \in 1..Len(rows) |->
                 IF index = existingIndex THEN StatRecord(input) ELSE rows[index]]
    ELSE Append(rows, StatRecord(input))

-----------------------------------------------------------------------------
(* wakatime-sync.ts, wakatime-weekly-cache.ts: the sync/cache engine.       *)
(* A sync of a user is suspended at the provider call; when the provider    *)
(* answers, the classified result is persisted, cached and handed to the    *)
(* achievement engine.                                                      *)

MaxNow == 2
MaxProviderCalls == 2
MaxReads == 1

\* The cache TTL, in ticks of the clock
CacheTtl == 1

SyncUsers == {1, 2}

SyncPeriodKey == "2026-02-02"

\* What the provider client makes of a call: 200, 401/403, 404, anything else
ProviderOutcomes ==
    {[status |-> "ok", totalSeconds |-> 5 * Hour],
     [status |-> "private", totalSeconds |-> 0],
     [status |-> "not_found", totalSeconds |-> 0],
     [status |-> "error", totalSeconds |-> 0]}

\* mutant: the bypassCache flag is not looked at
Due_ignoresBypass(entry, bypassCache, at, staleAtTtl) ==
    \/ entry = Null
    \/ at - Val(entry).fetchedAt > CacheTtl
    \/ at - Val(entry).fetchedAt = CacheTtl /\ staleAtTtl

\* The cache-or-fetch decision: a bypass, a miss, or an entry older than the
\* TTL; staleAtTtl settles an entry whose age is exactly the TTL
Due(entry, bypassCache, at, staleAtTtl) ==
    \/ bypassCache
    \/ entry = Null
    \/ at - Val(entry).fetchedAt > CacheTtl
    \/ at - Val(entry).fetchedAt = CacheTtl /\ staleAtTtl

\* mutant: a user without a cached entry is reported with an empty result
getStats_fillsMisses(cache, userIds) ==
    {[userId |-> u, result |-> cache[u]] : u \in userIds}

\* getStats: the cached entries of the users asked for
getStats(cache, userIds) ==
    {[userId |-> u, result |-> cache[u]] : u \in {v \in userIds : cache[v] # Null}}

\* mutant: a failed fetch ends the tick for the users still being fetched
TasksAfterResponse_failureEndsTick(tasks, c, u, status) ==
    IF status # "ok" /\ c = "tick"
    THEN [tasks EXCEPT !["tick"] = [v \in SyncUsers |-> "idle"]]
    ELSE [tasks EXCEPT ![c][u] = "idle"]

\* The fetches of the users are independent: an answer ends its own fetch
TasksAfterResponse(tasks, c, u, status) == [tasks EXCEPT ![c][u] = "idle"]

IdleRead == [reads |-> 0, userIds |-> {}, result |-> {}]

IdleTick == [ticks |-> 0, due |-> {}, persisted |-> {}, failed |-> {},
             written |-> [u \in SyncUsers |-> Null]]

RunningEngine == [timer |-> "running", inFlight |-> {}]

InitSyncVars ==
    /\ now = 0
    /\ syncCache = [u \in SyncUsers |-> Null]
    /\ dailyStats = <<>>
    /\ providerCalls = 0
    /\ syncTask = [c \in Callers |-> [u \in SyncUsers |-> "idle"]]
    /\ lastSync = Null
    /\ statsRead = IdleRead
    /\ tickRun = IdleTick
    /\ engine = RunningEngine

AdvanceClock ==
    /\ now < MaxNow
    /\ now' = now + 1
    /\ UNCHANGED <<syncCache, dailyStats, providerCalls, syncTask, lastSync, statsRead,
                   tickRun, engine, achievements>>

\* syncUser({id, bypassCache}): the on-demand sync of a manual refresh or of
\* a new user
SyncUser(u, bypassCache) ==
    /\ syncTask["manual"][u] = "idle"
    /\ \E staleAtTtl \in BOOLEAN :
           LET entry == syncCache[u]
               due == Due(entry, bypassCache, now, staleAtTtl)
           IN  /\ due => providerCalls < MaxProviderCalls
               /\ providerCalls' = IF due THEN providerCalls + 1 ELSE providerCalls
               /\ syncTask' = IF due THEN [syncTask EXCEPT !["manual"][u] = "fetching"]
                              ELSE syncTask
               /\ lastSync' = Some([userId |-> u,
                                    bypassCache |-> bypassCache,
                                    cached |-> entry # Null,
                                    age |-> IF entry = Null THEN 0
                                            ELSE now - Val(entry).fetchedAt,
                                    callsBefore |-> providerCalls,
                                    callsAfter |-> providerCalls'])
    /\ UNCHANGED <<now, syncCache, dailyStats, statsRead, tickRun, engine, achievements>>

\* mutant: the timer keeps firing after stop()
TimerArmed_afterStop(state) == TRUE

\* The periodic timer fires only until stop() clears it
TimerArmed(state) == state.timer = "running"

\* mutant: stop() drops the fetches in flight
TasksAfterStop_cancelled(tasks) == [c \in Callers |-> [u \in SyncUsers |-> "idle"]]

\* stop() leaves the fetches in flight alone
TasksAfterStop(tasks) == tasks

\* stop(): the timer is cleared
Stop ==
    /\ engine = RunningEngine
    /\ engine' = [timer |-> "cleared",
                  inFlight |-> {cu \in Callers \X SyncUsers :
                                   syncTask[cu[1]][cu[2]] = "fetching"}]
    /\ syncTask' = TasksAfterStop(syncTask)
    /\ UNCHANGED <<now, syncCache, dailyStats, providerCalls, lastSync, statsRead, tickRun,
                   achievements>>

\* One tick of the periodic loop: the fetches of all due users are started
RunTick ==
    /\ TimerArmed(engine)
    /\ \A u \in SyncUsers : syncTask["tick"][u] = "idle"
    /\ tickRun.ticks <= now
    /\ \E staleAtTtl \in BOOLEAN :
           LET due == {u \in SyncUsers : Due(syncCache[u], FALSE, now, staleAtTtl)}
           IN  /\ providerCalls + Cardinality(due) <= MaxProviderCalls
               /\ providerCalls' = providerCalls + Cardinality(due)
               /\ syncTask' = [syncTask EXCEPT !["tick"] =
                      [u \in SyncUsers |-> IF u \in due THEN "fetching" ELSE "idle"]]
               /\ tickRun' = [IdleTick EXCEPT !.ticks = tickRun.ticks + 1, !.due = due]
    /\ UNCHANGED <<now, syncCache, dailyStats, lastSync, statsRead, engine, achievements>>

\* The provider answers a fetch: the classified result is persisted, cached
\* and evaluated for achievements
ProviderResponds(c, u) ==
    /\ syncTask[c][u] = "fetching"
    /\ \E outcome \in ProviderOutcomes :
           LET result == [userId |-> u,
                          dateKey |-> SyncPeriodKey,
                          totalSeconds |-> outcome.totalSeconds,
                          status |-> outcome.status,
                          error |-> IF outcome.status = "error"
                                    THEN Some("request failed") ELSE Null,
                          fetchedAt |-> now]
           IN  /\ dailyStats' = upsertDailyStat(dailyStats, result)
               /\ syncCache' = [syncCache EXCEPT ![u] = Some(result)]
               /\ achievements' = ApplyGrants(achievements,
                      GrantsOf("daily", [userId |-> u,
                                         periodKey |-> SyncPeriodKey,
                                         status |-> outcome.status,
                                         totalSeconds |-> outcome.totalSeconds,
                                         fetchedAt |-> now]))
               /\ syncTask' = TasksAfterResponse(syncTask, c, u, outcome.status)
               /\ tickRun' =
                      IF c = "tick"
                      THEN [tickRun EXCEPT
                               !.persisted = @ \cup {u},
                               !.failed = IF outcome.status # "ok" THEN @ \cup {u} ELSE @,
                               !.written = [@ EXCEPT ![u] = Some(result)]]
                      ELSE tickRun
    /\ UNCHANGED <<now, providerCalls, lastSync, statsRead, engine>>

\* getStats({userIds, rangeKey}): a leaderboard read
GetStats(userIds) ==
    /\ statsRead.reads < MaxReads
    /\ statsRead' = [reads |-> statsRead.reads + 1,
                     userIds |-> userIds,
                     result |-> getStats(syncCache, userIds)]
    /\ UNCHANGED <<now, syncCache, dailyStats, providerCalls, syncTask, lastSync,
                   tickRun, engine, achievements>>

-----------------------------------------------------------------------------
(* repository.ts: store.upsertDailyStat called by two syncs of one user and *)
(* period. As for the grants, the upsert runs at once or as a select         *)
(* followed by an insert or an update, under the unique index on             *)
(* (user_id, date_key).                                                      *)

MaxStatUpserts == 3

\* The results the racing syncs bring for user 1 and the period
RaceResults ==
    {[totalSeconds |-> 5 * Hour, status |-> "ok", error |-> Null],
     [totalSeconds |-> 0, status |-> "error", error |-> Some("request failed")]}

IdleStatUpsert == [pc |-> "idle", input |-> Null, found |-> FALSE, outcome |-> "none"]

InitStatRaceVars ==
    /\ statUpsert = [c \in Callers |-> IdleStatUpsert]
    /\ statWrites = <<>>

StatRowExists(rows, input) == \E i \in 1..Len(rows) : SameStatKey(rows[i], input)

\* A sync calls store.upsertDailyStat with its result; fetchedAt is the order
\* of the calls
CallUpsertDailyStat(c) ==
    /\ statUpsert[c].pc = "idle"
    /\ Len(statWrites) + Cardinality({d \in Callers : statUpsert[d].pc # "idle"})
           < MaxStatUpserts
    /\ \E result \in RaceResults, fetchedAt \in 1..MaxStatUpserts :
           statUpsert' = [statUpsert EXCEPT ![c] =
               [pc |-> "called",
                input |-> Some([userId |-> 1,
                                dateKey |-> SyncPeriodKey,
                                totalSeconds |-> result.totalSeconds,
                                status |-> result.status,
                                error |-> result.error,
                                fetchedAt |-> fetchedAt]),
                found |-> FALSE,
                outcome |-> "none"]]
    /\ UNCHANGED <<dailyStats, statWrites>>

StatUpsertAtOnce(c) ==
    /\ statUpsert[c].pc = "called"
    /\ LET input == Val(statUpsert[c].input)
       IN  /\ dailyStats' = upsertDailyStat(dailyStats, input)
           /\ statWrites' = Append(statWrites, input)
           /\ statUpsert' = [statUpsert EXCEPT ![c] =
                  [IdleStatUpsert EXCEPT !.outcome =
                      IF StatRowExists(dailyStats, input) THEN "updated" ELSE "created"]]

StatUpsertSelect(c) ==
    /\ statUpsert[c].pc = "called"
    /\ statUpsert' = [statUpsert EXCEPT ![c] =
           [@ EXCEPT !.pc = "selected",
                     !.found = StatRowExists(dailyStats, Val(statUpsert[c].input))]]
    /\ UNCHANGED <<dailyStats, statWrites>>

\* mutant: the update leaves the status and the error of the row as they were
StatUpdate_keepsStatus(row, input) ==
    [row EXCEPT !.totalSeconds = input.totalSeconds,
                !.fetchedAt = input.fetchedAt]

\* The update data of the upsert: every field of the result
StatUpdate(row, input) ==
    [row EXCEPT !.totalSeconds = input.totalSeconds,
                !.status = input.status,
                !.error = input.error,
                !.fetchedAt = input.fetchedAt]

StatUpsertWrite(c) ==
    /\ statUpsert[c].pc = "selected"
    /\ LET input == Val(statUpsert[c].input)
           refused == ~statUpsert[c].found /\ StatRowExists(dailyStats, input)
       IN  /\ dailyStats' =
                  IF statUpsert[c].found
                  THEN [index \in 1..Len(dailyStats) |->
                           IF SameStatKey(dailyStats[index], input)
                           THEN StatUpdate(dailyStats[index], input)
                           ELSE dailyStats[index]]
                  ELSE IF refused THEN dailyStats
                  ELSE Append(dailyStats, StatRecord(input))
           /\ statWrites' = IF refused THEN statWrites ELSE Append(statWrites, input)
           /\ statUpsert' = [statUpsert EXCEPT ![c] =
                  [IdleStatUpsert EXCEPT !.outcome =
                      IF refused THEN "rejected"
                      ELSE IF statUpsert[c].found THEN "updated" ELSE "created"]]

-----------------------------------------------------------------------------
(* wakatime.ts: the provider client. One call is one HTTP request; what     *)
(* comes back for it (a response, a timeout, a network failure) is          *)
(* classified into a canonical result.                                      *)

MaxClientCalls == 2

ProviderUsernames == {"amy", "private"}

\* The HTTP statuses the provider is made to answer with
ProviderHttpStatuses == {200, 401, 403, 404, 429, 500}

\* A response body: a parseable grand total, or a body that does not parse
ResponseBodies == {Some(0), Some(Hour), Null}

\* What can come back for one request
HttpOutcomes ==
    {[transport |-> "response", httpStatus |-> httpStatus, body |-> body] :
        httpStatus \in ProviderHttpStatuses, body \in ResponseBodies}
    \cup {[transport |-> transport, httpStatus |-> 0, body |-> Null] :
             transport \in {"timeout", "network"}}

ClientResult(status, totalSeconds, error) ==
    [status |-> status, totalSeconds |-> totalSeconds, error |-> error]

\* mutant: 401 is taken for any other failed request
classify_unauthorizedIsError(outcome) ==
    IF outcome.transport # "response"
    THEN ClientResult("error", 0, Some("request failed"))
    ELSE IF outcome.httpStatus = 403
    THEN ClientResult("private", 0, Null)
    ELSE IF outcome.httpStatus = 404
    THEN ClientResult("not_found", 0, Null)
    ELSE IF outcome.httpStatus # 200 \/ outcome.body = Null
    THEN ClientResult("error", 0, Some("request failed"))
    ELSE ClientResult("ok", Val(outcome.body), Null)

\* The canonical outcome of one call
classify(outcome) ==
    IF outcome.transport # "response"
    THEN ClientResult("error", 0, Some("request failed"))
    ELSE IF outcome.httpStatus \in {401, 403}
    THEN ClientResult("private", 0, Null)
    ELSE IF outcome.httpStatus = 404
    THEN ClientResult("not_found", 0, Null)
    ELSE IF outcome.httpStatus # 200 \/ outcome.body = Null
    THEN ClientResult("error", 0, Some("request failed"))
    ELSE ClientResult("ok", Val(outcome.body), Null)

IdleClientCall == [pc |-> "idle", username |-> "", requests |-> 0]

InitClientVars ==
    /\ clientCall = IdleClientCall
    /\ clientReturned = <<>>

\* getStatusBarToday(username, apiKey): the request is sent
CallProvider(username) ==
    /\ clientCall.pc = "idle"
    /\ Len(clientReturned) < MaxClientCalls
    /\ clientCall' = [pc |-> "requested", username |-> username, requests |-> 1]
    /\ UNCHANGED clientReturned

\* The request ends and the client returns its classified result
ClientReturns(outcome) ==
    /\ clientCall.pc = "requested"
    /\ clientReturned' = Append(clientReturned,
           [username |-> clientCall.username,
            outcome |-> outcome,
            requests |-> clientCall.requests,
            result |-> Some(classify(outcome)),
            thrown |-> FALSE])
    /\ clientCall' = IdleClientCall

-----------------------------------------------------------------------------
(* app.ts: the leaderboard of a viewer and the visibility of stats.         *)
(* The viewer is user 1; users 2 and 3 are the others.                      *)

SocialUserIds == {1, 2, 3}

ViewerId == 1

WakawarsUsername(id) == CASE id = 1 -> "mo" [] id = 2 -> "amy" [] OTHER -> "ben"

StatsVisibility == {"everyone", "friends", "no_one"}

\* The rows store.getDailyStats can return for a user: a synced total, the
\* row of a private provider account, the row of a failed fetch
StoredStatValues ==
    {[totalSeconds |-> Hour, status |-> "ok", error |-> Null],
     [totalSeconds |-> 0, status |-> "private",
      error |-> Some("User data is private or unauthorized")],
     [totalSeconds |-> 0, status |-> "error", error |-> Some("request failed")]}

\* Array.from(new Set([config.id, ...friendIds, ...groupPeerIds]))
RECURSIVE AscendingIds(_)
AscendingIds(ids) ==
    IF ids = {} THEN <<>>
    ELSE LET least == CHOOSE id \in ids : \A other \in ids : id <= other
         IN  <<least>> \o AscendingIds(ids \ {least})

CandidateIds(viewerId, friends, peers) ==
    <<viewerId>> \o AscendingIds(friends \ {viewerId})
                 \o AscendingIds(peers \ (friends \cup {viewerId}))

\* mutant: a friendship the viewer declared is enough
isMutualFriend_oneWay(userId, friends, incoming) == userId \in friends

isMutualFriend(userId, friends, incoming) == userId \in friends /\ userId \in incoming

\* canView of buildDailyStat and buildWeeklyStat
canView(user, isSelf, friends, incoming, peers) ==
    \/ isSelf
    \/ user.statsVisibility = "everyone"
    \/ /\ user.statsVisibility = "friends"
       /\ \/ isMutualFriend(user.id, friends, incoming)
          \/ user.id \in peers

buildDailyStat(user, isSelf, stat, friends, incoming, peers) ==
    IF ~canView(user, isSelf, friends, incoming, peers)
    THEN [username |-> user.wakawarsUsername, totalSeconds |-> 0, status |-> "private",
          error |-> Null]
    ELSE IF stat = Null
    THEN [username |-> user.wakawarsUsername, totalSeconds |-> 0, status |-> "error",
          error |-> Some("No stats synced yet")]
    ELSE [username |-> user.wakawarsUsername,
          totalSeconds |-> Val(stat).totalSeconds,
          status |-> Val(stat).status,
          error |-> Val(stat).error]

\* mutant: users that have no stat row are left out
leaderboardUsers_syncedOnly(candidates, table, statsByUserId) ==
    SelectSeq(candidates, LAMBDA id : table[id].isCompeting /\ statsByUserId[id] # Null)

\* users.filter((user) => user.isCompeting)
leaderboardUsers(candidates, table, statsByUserId) ==
    SelectSeq(candidates, LAMBDA id : table[id].isCompeting)

\* mutant: the deltas of computeLeaderboard are handed out as they are
buildDailyLeaderboard_deltaFromRanking(viewerId, table, friends, incomingAll, peers, statsByUserId) ==
    LET userIds == CandidateIds(viewerId, friends, peers)
        incoming == incomingAll \cap {userIds[i] : i \in 1..Len(userIds)}
        selfStat == buildDailyStat(table[viewerId], TRUE, statsByUserId[viewerId],
                                   friends, incoming, peers)
        competing == leaderboardUsers(userIds, table, statsByUserId)
        built == [i \in 1..Len(competing) |->
                     buildDailyStat(table[competing[i]], competing[i] = viewerId,
                                    statsByUserId[competing[i]], friends, incoming, peers)]
        entries == computeLeaderboard(built, table[viewerId].wakawarsUsername)
        found == findByUsername(entries, table[viewerId].wakawarsUsername)
    IN  [kind |-> "leaderboard",
         httpStatus |-> 200,
         stats |-> built,
         entries |-> entries,
         selfEntry |-> IF found # Null THEN found
                       ELSE Some([rank |-> Null, deltaSeconds |-> 0] @@ selfStat)]

\* buildDailyLeaderboard(config, offsetDays); incoming is what
\* store.getIncomingFriendIds(config.id, userIds) returns
buildDailyLeaderboard(viewerId, table, friends, incomingAll, peers, statsByUserId) ==
    LET userIds == CandidateIds(viewerId, friends, peers)
        incoming == incomingAll \cap {userIds[i] : i \in 1..Len(userIds)}
        selfStat == buildDailyStat(table[viewerId], TRUE, statsByUserId[viewerId],
                                   friends, incoming, peers)
        competing == leaderboardUsers(userIds, table, statsByUserId)
        built == [i \in 1..Len(competing) |->
                     buildDailyStat(table[competing[i]], competing[i] = viewerId,
                                    statsByUserId[competing[i]], friends, incoming, peers)]
        computedEntries == computeLeaderboard(built, table[viewerId].wakawarsUsername)
        selfSeconds == selfStat.totalSeconds
        entries == [i \in 1..Len(computedEntries) |->
                       [computedEntries[i] EXCEPT
                           !.deltaSeconds = computedEntries[i].totalSeconds - selfSeconds]]
        found == findByUsername(entries, table[viewerId].wakawarsUsername)
    IN  [kind |-> "leaderboard",
         httpStatus |-> 200,
         stats |-> built,
         entries |-> entries,
         selfEntry |-> IF found # Null THEN found
                       ELSE Some([rank |-> Null, deltaSeconds |-> 0] @@ selfStat)]

\* mutant: the no_one setting is not looked at
canViewUserStats_noOneAsFriends(viewer, target, friends, incomingAll, peers) ==
    IF viewer.id = target.id THEN TRUE
    ELSE IF target.statsVisibility = "everyone" THEN TRUE
    ELSE IF isMutualFriend(target.id, friends, incomingAll \cap {target.id}) THEN TRUE
    ELSE target.id \in peers

canViewUserStats(viewer, target, friends, incomingAll, peers) ==
    IF viewer.id = target.id THEN TRUE
    ELSE IF target.statsVisibility = "everyone" THEN TRUE
    ELSE IF target.statsVisibility = "no_one" THEN FALSE
    ELSE IF isMutualFriend(target.id, friends, incomingAll \cap {target.id}) THEN TRUE
    ELSE target.id \in peers

NoRequest == [kind |-> "none", httpStatus |-> 0]

InitSocialVars ==
    /\ users = [id \in SocialUserIds |->
                   [id |-> id, wakawarsUsername |-> WakawarsUsername(id),
                    statsVisibility |-> "everyone", isCompeting |-> TRUE]]
    /\ friendIds = {}
    /\ incomingFriends = {}
    /\ groupPeerIds = {}
    /\ storedStats = [id \in SocialUserIds |-> Null]
    /\ request = NoRequest

\* GET /stats/today of the viewer
GetStatsToday ==
    /\ request.kind = "none"
    /\ request' = buildDailyLeaderboard(ViewerId, users, friendIds, incomingFriends,
                                        groupPeerIds, storedStats)
    /\ UNCHANGED <<users, friendIds, incomingFriends, groupPeerIds, storedStats,
                   achievements>>

-----------------------------------------------------------------------------
(* repository.ts: listAchievementUnlocks; achievements.ts: the board and    *)
(* the display built from it; app.ts: GET /achievements and                 *)
(* GET /achievements/:username                                              *)

MaxBoardGrants == 3

\* a group of the Map, updated with one more row of its achievement
GroupWith(existing, entry) ==
    [achievementId |-> existing.achievementId,
     count |-> existing.count + 1,
     firstAwardedAt |-> IF existing.firstAwardedAt <= entry.awardedAt
                        THEN existing.firstAwardedAt ELSE entry.awardedAt,
     lastAwardedAt |-> IF existing.lastAwardedAt >= entry.awardedAt
                       THEN existing.lastAwardedAt ELSE entry.awardedAt]

\* the Map filled by forEach: groups keep the order of their first row
RECURSIVE GroupedFrom(_, _, _)
GroupedFrom(rows, userId, grouped) ==
    IF rows = <<>> THEN grouped
    ELSE LET entry == Head(rows)
             at == {i \in 1..Len(grouped) :
                        grouped[i].achievementId = entry.achievementId}
         IN  IF entry.userId # userId THEN GroupedFrom(Tail(rows), userId, grouped)
             ELSE IF at = {}
             THEN GroupedFrom(Tail(rows), userId,
                      Append(grouped, [achievementId |-> entry.achievementId,
                                       count |-> 1,
                                       firstAwardedAt |-> entry.awardedAt,
                                       lastAwardedAt |-> entry.awardedAt]))
             ELSE LET i == CHOOSE j \in at : TRUE
                  IN  GroupedFrom(Tail(rows), userId,
                          [grouped EXCEPT ![i] = GroupWith(grouped[i], entry)])

\* Array.prototype.sort by lastAwardedAt descending (stable)
RECURSIVE InsertLatestFirst(_, _)
InsertLatestFirst(sorted, unlock) ==
    IF sorted = <<>> THEN <<unlock>>
    ELSE IF unlock.lastAwardedAt > Head(sorted).lastAwardedAt
         THEN <<unlock>> \o sorted
         ELSE <<Head(sorted)>> \o InsertLatestFirst(Tail(sorted), unlock)

RECURSIVE SortLatestFirstFrom(_, _)
SortLatestFirstFrom(unlocks, sorted) ==
    IF unlocks = <<>> THEN sorted
    ELSE SortLatestFirstFrom(Tail(unlocks), InsertLatestFirst(sorted, Head(unlocks)))

\* mutant: one unlock per achievement, whatever the number of its rows
listAchievementUnlocks_countsOnce(rows, userId) ==
    LET grouped == GroupedFrom(rows, userId, <<>>)
    IN  SortLatestFirstFrom([i \in 1..Len(grouped) |->
                                [grouped[i] EXCEPT !.count = 1]], <<>>)

listAchievementUnlocks(rows, userId) ==
    SortLatestFirstFrom(GroupedFrom(rows, userId, <<>>), <<>>)

\* the unlock summary of an achievement, if there is one
UnlockOf(unlocks, achievementId) ==
    LET at == {i \in 1..Len(unlocks) : unlocks[i].achievementId = achievementId}
    IN  IF at = {} THEN Null ELSE Some(unlocks[CHOOSE i \in at : TRUE])

BoardItem(definition, unlock) ==
    [id |-> definition.id,
     unlocked |-> unlock # Null,
     count |-> IF unlock = Null THEN 0 ELSE Val(unlock).count,
     firstAwardedAt |-> IF unlock = Null THEN Null ELSE Some(Val(unlock).firstAwardedAt),
     lastAwardedAt |-> IF unlock = Null THEN Null ELSE Some(Val(unlock).lastAwardedAt)]

\* mutant: the board leaves out what is locked
toAchievementBoard_unlockedOnly(unlocks) ==
    SelectSeq([i \in 1..Len(ACHIEVEMENT_DEFINITIONS) |->
                  BoardItem(ACHIEVEMENT_DEFINITIONS[i],
                            UnlockOf(unlocks, ACHIEVEMENT_DEFINITIONS[i].id))],
              LAMBDA item : item.unlocked)

\* the catalog in declaration order, each definition with its unlock summary
toAchievementBoard(unlocks) ==
    [i \in 1..Len(ACHIEVEMENT_DEFINITIONS) |->
        BoardItem(ACHIEVEMENT_DEFINITIONS[i],
                  UnlockOf(unlocks, ACHIEVEMENT_DEFINITIONS[i].id))]

DefinitionOf(achievementId) ==
    LET at == {i \in 1..Len(ACHIEVEMENT_DEFINITIONS) :
                   ACHIEVEMENT_DEFINITIONS[i].id = achievementId}
    IN  IF at = {} THEN Null ELSE Some(ACHIEVEMENT_DEFINITIONS[CHOOSE i \in at : TRUE])

\* the unlocked achievements only, in the order of the unlock summary
toAchievementDisplay(unlocks) ==
    LET known == SelectSeq(unlocks,
                     LAMBDA unlock : DefinitionOf(unlock.achievementId) # Null)
    IN  [i \in 1..Len(known) |->
            BoardItem(Val(DefinitionOf(known[i].achievementId)), Some(known[i]))]

RECURSIVE SumCounts(_)
SumCounts(items) ==
    IF items = <<>> THEN 0 ELSE Head(items).count + SumCounts(Tail(items))

\* store.getUserByUsername
getUserByUsername(table, username) ==
    LET found == {id \in DOMAIN table : table[id].wakawarsUsername = username}
    IN  IF found = {} THEN Null ELSE Some(table[CHOOSE id \in found : TRUE])

\* Usernames asked for: those of the users and one nobody has
RequestedUsernames == {WakawarsUsername(id) : id \in SocialUserIds} \cup {"zed"}

BoardGrant(userId, achievementId, contextKind, contextKey, awardedAt) ==
    GrantRecord([userId |-> userId, achievementId |-> achievementId,
                 contextKind |-> contextKind, contextKey |-> contextKey,
                 awardedAt |-> awardedAt, metadata |-> Null])

\* Rows that short grant lists are drawn from, one per tuple
BoardGrantChoices ==
    {BoardGrant(1, "quick-boot-4h", "daily", "2026-02-01", 1),
     BoardGrant(1, "quick-boot-4h", "daily", "2026-02-02", 2),
     BoardGrant(1, "workweek-warrior-40h", "weekly", "2026-W05", 2),
     BoardGrant(2, "quick-boot-4h", "daily", "2026-02-01", 1),
     BoardGrant(2, "focus-reactor-6h", "daily", "2026-02-03", 3)}

\* GET /achievements of the viewer
GetAchievements ==
    /\ request.kind = "none"
    /\ LET unlocks == listAchievementUnlocks(achievements, ViewerId)
       IN  request' = [kind |-> "board", httpStatus |-> 200,
                       username |-> users[ViewerId].wakawarsUsername,
                       totalUnlocks |-> SumCounts(unlocks),
                       unlockedCount |-> Len(unlocks),
                       totalDefined |-> Len(ACHIEVEMENT_DEFINITIONS),
                       achievements |-> toAchievementBoard(unlocks)]
    /\ UNCHANGED <<users, friendIds, incomingFriends, groupPeerIds, storedStats,
                   achievements>>

\* GET /achievements/:username asked by the viewer
GetAchievementsOf(username) ==
    /\ request.kind = "none"
    /\ LET target == getUserByUsername(users, username)
       IN  request' =
               IF target = Null
               THEN [kind |-> "display", httpStatus |-> 404, username |-> username,
                     error |-> "User not found"]
               ELSE IF ~canViewUserStats(users[ViewerId], Val(target), friendIds,
                                         incomingFriends, groupPeerIds)
               THEN [kind |-> "display", httpStatus |-> 403, username |-> username,
                     error |-> "Achievements are private"]
               ELSE LET shown == toAchievementDisplay(
                                     listAchievementUnlocks(achievements, Val(target).id))
                    IN  [kind |-> "display", httpStatus |-> 200,
                         username |-> Val(target).wakawarsUsername,
                         totalUnlocks |-> SumCounts(shown),
                         achievements |-> shown]
    /\ UNCHANGED <<users, friendIds, incomingFriends, groupPeerIds, storedStats,
                   achievements>>

-----------------------------------------------------------------------------
(* app.ts: POST /config and POST /username. A handler looks the name up     *)
(* with store.getUserByUsername and, after the await, writes with           *)
(* store.createUser or store.updateUser; another request may run between    *)
(* the two. The Prisma store reads the name with findUnique, so the table   *)
(* has a unique index on wakawars_username that refuses a second holder;    *)
(* the memory store has none.                                               *)

MaxAccountRequests == 2
AccountRequestIds == 1..MaxAccountRequests

RawUsernames == {"mo", " Mo ", "amy", " "}
RawApiKeys == {"key", " "}

\* String.prototype.trim
trim(value) ==
    CASE value = " Mo " -> "Mo"
      [] value = " " -> ""
      [] OTHER -> value

\* String.prototype.toLowerCase of a name
toLowerCaseName(value) ==
    CASE value = "Mo" -> "mo"
      [] OTHER -> value

normalizeUsername(value) == toLowerCaseName(trim(value))

AccountRecord(id, wakawarsUsername, apiKey) ==
    [id |-> id, wakawarsUsername |-> wakawarsUsername, apiKey |-> apiKey]

createUser(table, wakawarsUsername, apiKey) ==
    Append(table, AccountRecord(Len(table) + 1, wakawarsUsername, apiKey))

updateUser(table, userId, wakawarsUsername, apiKey) ==
    [table EXCEPT ![userId] = AccountRecord(userId, wakawarsUsername, apiKey)]

\* Another user than userId holds the name (userId 0: any user does)
HeldByOther(table, wakawarsUsername, userId) ==
    \E i \in 1..Len(table) :
        table[i].wakawarsUsername = wakawarsUsername /\ i # userId

\* The unique index refuses the write that would give the name a second holder
UsernameIndexRefuses(table, wakawarsUsername, userId) ==
    usernameIndex /\ HeldByOther(table, wakawarsUsername, userId)

\* Session tokens: none, the session of a user, or a token no session has
SessionTokens(table) == {Null, Some(0)} \cup {Some(id) : id \in 1..Len(table)}

\* sessions.getUserId
getUserId(table, token) ==
    IF Val(token) \in 1..Len(table) THEN Some(Val(token)) ELSE Null

IdleAccountRequest ==
    [route |-> "none", pc |-> "idle", userId |-> 0, wakawarsUsername |-> "",
     apiKey |-> "", httpStatus |-> 0, taken |-> FALSE, wrote |-> FALSE]

AccountResponse(call, httpStatus, taken, wrote) ==
    [call EXCEPT !.pc = "done", !.httpStatus = httpStatus, !.taken = taken,
                 !.wrote = wrote]

InitAccountVars ==
    /\ accounts = <<>>
    /\ accountRequests = [r \in AccountRequestIds |-> IdleAccountRequest]
    /\ usernameIndex = TRUE

\* POST /config up to the lookup of the name
PostConfig(r, rawUsername, rawApiKey, token) ==
    /\ accountRequests[r].pc = "idle"
    /\ LET wakawarsUsername == normalizeUsername(rawUsername)
           apiKey == trim(rawApiKey)
           call == [IdleAccountRequest EXCEPT !.route = "config",
                                              !.wakawarsUsername = wakawarsUsername,
                                              !.apiKey = apiKey]
       IN  accountRequests' = [accountRequests EXCEPT ![r] =
               IF wakawarsUsername = "" THEN AccountResponse(call, 400, FALSE, FALSE)
               ELSE IF apiKey = "" THEN AccountResponse(call, 400, FALSE, FALSE)
               ELSE IF token = Null THEN [call EXCEPT !.pc = "checking"]
               ELSE IF getUserId(accounts, token) = Null
               THEN AccountResponse(call, 401, FALSE, FALSE)
               ELSE [call EXCEPT !.pc = "checking",
                                 !.userId = Val(getUserId(accounts, token))]]
    /\ UNCHANGED <<accounts, usernameIndex>>

\* POST /username up to the lookup of the name; the session gives the user
\* record whose apiKey is written back
PostUsername(r, rawUsername, token) ==
    /\ accountRequests[r].pc = "idle"
    /\ LET wakawarsUsername == normalizeUsername(rawUsername)
           call == [IdleAccountRequest EXCEPT !.route = "username",
                                              !.wakawarsUsername = wakawarsUsername]
       IN  accountRequests' = [accountRequests EXCEPT ![r] =
               IF wakawarsUsername = "" THEN AccountResponse(call, 400, FALSE, FALSE)
               ELSE IF token = Null \/ getUserId(accounts, token) = Null
               THEN AccountResponse(call, 401, FALSE, FALSE)
               ELSE LET userId == Val(getUserId(accounts, token))
                    IN  [call EXCEPT !.pc = "checking", !.userId = userId,
                                     !.apiKey = accounts[userId].apiKey]]
    /\ UNCHANGED <<accounts, usernameIndex>>

\* store.getUserByUsername and the 409 of either handler
CheckUsername(r) ==
    /\ accountRequests[r].pc = "checking"
    /\ LET call == accountRequests[r]
           existing == getUserByUsername(accounts, call.wakawarsUsername)
       IN  accountRequests' = [accountRequests EXCEPT ![r] =
               IF existing # Null /\ Val(existing).id # call.userId
               THEN AccountResponse(call, 409, TRUE, FALSE)
               ELSE [call EXCEPT !.pc = "writing"]]
    /\ UNCHANGED <<accounts, usernameIndex>>

\* store.createUser or store.updateUser and the answer; a write the index
\* refuses rejects, and the handler catches nothing
WriteUsername(r) ==
    /\ accountRequests[r].pc = "writing"
    /\ LET call == accountRequests[r]
           held == HeldByOther(accounts, call.wakawarsUsername, call.userId)
       IN  IF UsernameIndexRefuses(accounts, call.wakawarsUsername, call.userId)
           THEN /\ accountRequests' = [accountRequests EXCEPT ![r] =
                       AccountResponse(call, 500, held, FALSE)]
                /\ UNCHANGED accounts
           ELSE /\ accounts' =
                       IF call.userId = 0
                       THEN createUser(accounts, call.wakawarsUsername, call.apiKey)
                       ELSE updateUser(accounts, call.userId, call.wakawarsUsername,
                                       call.apiKey)
                /\ accountRequests' = [accountRequests EXCEPT ![r] =
                       AccountResponse(call, 200, held, TRUE)]
    /\ UNCHANGED usernameIndex

-----------------------------------------------------------------------------
(* leaderboard.ts: formatDuration and formatDelta. A number is a record:    *)
(* a finite one carries its value in seconds, a non-finite one is Infinity  *)
(* (value 1), -Infinity (value -1) or NaN (value 0).                        *)

MaxDeltaSeconds == 400
DEFAULT_THRESHOLD_SECONDS == 300

Finite(value) == [finite |-> TRUE, value |-> value]
NonFinite(value) == [finite |-> FALSE, value |-> value]

\* the text formatDelta answers for a number that is not finite
EM_DASH == "--"

\* Math.round of seconds / 60, for whole seconds that are not negative
RoundMinutes(seconds) == (seconds + 30) \div 60

formatDuration(seconds) ==
    LET safeSeconds == IF seconds.finite
                       THEN (IF seconds.value > 0 THEN seconds.value ELSE 0)
                       ELSE 0
        totalMinutes == RoundMinutes(safeSeconds)
        hours == totalMinutes \div 60
        minutes == totalMinutes % 60
    IN  IF hours = 0 THEN ToString(minutes) \o "m"
        ELSE IF minutes = 0 THEN ToString(hours) \o "h"
        ELSE ToString(hours) \o "h " \o ToString(minutes) \o "m"

\* Math.abs
Abs(number) ==
    IF number.finite
    THEN Finite(IF number.value < 0 THEN -number.value ELSE number.value)
    ELSE NonFinite(IF number.value = 0 THEN 0 ELSE 1)

\* number < bound and number > bound, for a finite bound; false for NaN
LessThan(number, bound) ==
    IF number.finite THEN number.value < bound ELSE number.value = -1

GreaterThan(number, bound) ==
    IF number.finite THEN number.value > bound ELSE number.value = 1

\* mutant: a delta equal to the threshold is shown as zero
formatDelta_thresholdInclusive(deltaSeconds, thresholdSeconds) ==
    IF ~deltaSeconds.finite THEN EM_DASH
    ELSE IF ~GreaterThan(Abs(deltaSeconds), thresholdSeconds)
    THEN formatDuration(Finite(0))
    ELSE (IF GreaterThan(deltaSeconds, 0) THEN "+" ELSE "-")
             \o formatDuration(Abs(deltaSeconds))

formatDelta(deltaSeconds, thresholdSeconds) ==
    IF ~deltaSeconds.finite THEN EM_DASH
    ELSE IF LessThan(Abs(deltaSeconds), thresholdSeconds)
    THEN formatDuration(Finite(0))
    ELSE (IF GreaterThan(deltaSeconds, 0) THEN "+" ELSE "-")
             \o formatDuration(Abs(deltaSeconds))

\* Deltas handed in: every whole second around the thresholds, some hours,
\* and the numbers that are not finite
DeltaInputs ==
    {Finite(d) : d \in -MaxDeltaSeconds..MaxDeltaSeconds}
        \cup {Finite(d) : d \in {3600, -3600, 3660, -3660, 86400, -86400}}
        \cup {NonFinite(v) : v \in {-1, 0, 1}}

ThresholdInputs == {0, 60, DEFAULT_THRESHOLD_SECONDS}

InitFormatVars ==
    /\ formatInput = [deltaSeconds |-> Finite(0),
                      thresholdSeconds |-> DEFAULT_THRESHOLD_SECONDS]
    /\ formatOutput = Null

FormatDelta ==
    /\ formatOutput = Null
    /\ formatOutput' = Some(formatDelta(formatInput.deltaSeconds,
                                        formatInput.thresholdSeconds))
    /\ UNCHANGED formatInput

-----------------------------------------------------------------------------
(* backfill-achievements.ts: createWeeklyBucketsFromDailyHistory called on  *)
(* a list of daily rows                                                     *)

MaxBucketRows == 3

InitBucketVars ==
    /\ bucketRows = <<>>
    /\ bucketResult = Null

CreateWeeklyBuckets ==
    /\ bucketResult = Null
    /\ bucketResult' = Some(createWeeklyBucketsFromDailyHistory(bucketRows, "last_7_days"))
    /\ UNCHANGED bucketRows

-----------------------------------------------------------------------------
(* honor-titles.ts: one call of getLongestConsecutiveWeekStreak *)

MaxStreakKeys == 4

InitStreakVars ==
    /\ streakKeys = <<>>
    /\ streakResult = Null

GetLongestConsecutiveWeekStreak ==
    /\ streakResult = Null
    /\ streakResult' = Some(getLongestConsecutiveWeekStreak(streakKeys))
    /\ UNCHANGED streakKeys

-----------------------------------------------------------------------------
(* app.ts: GET /stats/weekly *)

WeeklyResultValues ==
    {[totalSeconds |-> 2 * Hour, dailyAverageSeconds |-> Hour, status |-> "ok",
      error |-> Null],
     [totalSeconds |-> 3 * Hour, dailyAverageSeconds |-> Hour, status |-> "ok",
      error |-> Null],
     [totalSeconds |-> 0, dailyAverageSeconds |-> 0, status |-> "error",
      error |-> Some("request failed")]}

buildWeeklyStat(user, isSelf, stat, friends, incoming, peers) ==
    IF ~canView(user, isSelf, friends, incoming, peers)
    THEN [username |-> user.wakawarsUsername, totalSeconds |-> 0,
          dailyAverageSeconds |-> 0, status |-> "private", error |-> Null]
    ELSE IF stat = Null
    THEN [username |-> user.wakawarsUsername, totalSeconds |-> 0,
          dailyAverageSeconds |-> 0, status |-> "error",
          error |-> Some("No stats synced yet")]
    ELSE [username |-> user.wakawarsUsername,
          totalSeconds |-> Val(stat).totalSeconds,
          dailyAverageSeconds |-> Val(stat).dailyAverageSeconds,
          status |-> Val(stat).status,
          error |-> Val(stat).error]

\* The body of the GET /stats/weekly handler once the session and the
\* configuration are accepted
WeeklyLeaderboardResponse(viewerId, table, friends, incomingAll, peers, cache) ==
    LET userIds == CandidateIds(viewerId, friends, peers)
        idSet == {userIds[i] : i \in 1..Len(userIds)}
        weeklyStats == getStats(cache, idSet)
        statsByUserId == [id \in DOMAIN table |->
                             IF \E stat \in weeklyStats : stat.userId = id
                             THEN (CHOOSE stat \in weeklyStats : stat.userId = id).result
                             ELSE Null]
        incoming == incomingAll \cap idSet
        selfStat == buildWeeklyStat(table[viewerId], TRUE, statsByUserId[viewerId],
                                    friends, incoming, peers)
        competing == leaderboardUsers(userIds, table, statsByUserId)
        built == [i \in 1..Len(competing) |->
                     buildWeeklyStat(table[competing[i]], competing[i] = viewerId,
                                     statsByUserId[competing[i]], friends, incoming, peers)]
        computedEntries == computeLeaderboard(built, table[viewerId].wakawarsUsername)
        selfSeconds == selfStat.totalSeconds
        entries == [i \in 1..Len(computedEntries) |->
                       [computedEntries[i] EXCEPT
                           !.deltaSeconds = computedEntries[i].totalSeconds - selfSeconds]]
        found == findByUsername(entries, table[viewerId].wakawarsUsername)
    IN  [kind |-> "weekly_leaderboard",
         httpStatus |-> 200,
         stats |-> built,
         entries |-> entries,
         selfEntry |-> IF found # Null THEN found
                       ELSE Some([rank |-> Null, deltaSeconds |-> 0] @@ selfStat)]

InitWeeklyVars ==
    /\ weeklyCacheStats = [id \in SocialUserIds |-> Null]

\* GET /stats/weekly of the viewer
GetStatsWeekly ==
    /\ request.kind = "none"
    /\ request' = WeeklyLeaderboardResponse(ViewerId, users, friendIds, incomingFriends,
                                            groupPeerIds, weeklyCacheStats)
    /\ UNCHANGED <<users, friendIds, incomingFriends, groupPeerIds, storedStats,
                   achievements, weeklyCacheStats>>

-----------------------------------------------------------------------------
(* App.tsx: loadStats, handleRefresh and the competition toggle *)

MaxLoadCalls == 4

\* What a loadStats callback sees of the render that created it
Closure(state, isCompeting) == [competitionState |-> state, isCompeting |-> isCompeting]

\* The toggle is pending and the page shows a competitionState other than
\* config.isCompeting
ToggleOpen(pending, state, isCompeting) ==
    pending /\ state # Null /\ Val(state) # isCompeting

\* loadStatsAbortRef.current?.abort(): the controller of the last call that
\* sent requests
abort(calls) ==
    IF calls = <<>> THEN calls
    ELSE [calls EXCEPT ![Len(calls)].aborted = TRUE]

\* loadStats() up to its await, run with the closure of the render that created
\* the callback; shown is the competitionState of the page at the call
loadStats(closure, pending, shown, isCompeting, calls) ==
    IF /\ pending
       /\ closure.competitionState # Null
       /\ Val(closure.competitionState) # closure.isCompeting
    THEN abort(calls)
    ELSE Append(abort(calls),
                [requestId |-> Len(calls) + 1,
                 aborted |-> FALSE,
                 phase |-> "waiting",
                 toggleOpen |-> ToggleOpen(pending, shown, isCompeting)])

NoCompetitionRequest == [phase |-> "none", isCompeting |-> FALSE]

NothingLoaded == [kind |-> "none", requestId |-> 0]

InitWebVars ==
    /\ configIsCompeting = TRUE
    /\ competitionState = Some(TRUE)
    /\ competitionPendingRef = FALSE
    /\ loadStatsSeqRef = 0
    /\ loadCalls = <<>>
    /\ refreshing = Null
    /\ competitionRequest = NoCompetitionRequest
    /\ statsFrom = NothingLoaded

\* The 15 minute interval, handleRetry or a mount effect: loadStats of the
\* current render
CallLoadStats ==
    /\ loadStatsSeqRef < MaxLoadCalls
    /\ loadCalls' = loadStats(Closure(competitionState, configIsCompeting),
                              competitionPendingRef, competitionState,
                              configIsCompeting, loadCalls)
    /\ loadStatsSeqRef' = Len(loadCalls')
    /\ UNCHANGED <<configIsCompeting, competitionState, competitionPendingRef,
                   refreshing, competitionRequest, statsFrom>>

\* handleRefresh up to its await of POST /stats/refresh
HandleRefresh ==
    /\ refreshing = Null
    /\ refreshing' = Some(Closure(competitionState, configIsCompeting))
    /\ UNCHANGED <<configIsCompeting, competitionState, competitionPendingRef,
                   loadStatsSeqRef, loadCalls, competitionRequest, statsFrom>>

\* POST /stats/refresh settles: on success handleRefresh goes on to the
\* loadStats it captured
RefreshSettles(fulfilled) ==
    /\ refreshing # Null
    /\ fulfilled => loadStatsSeqRef < MaxLoadCalls
    /\ loadCalls' = IF fulfilled
                    THEN loadStats(Val(refreshing), competitionPendingRef,
                                   competitionState, configIsCompeting, loadCalls)
                    ELSE loadCalls
    /\ loadStatsSeqRef' = Len(loadCalls')
    /\ refreshing' = Null
    /\ UNCHANGED <<configIsCompeting, competitionState, competitionPendingRef,
                   competitionRequest, statsFrom>>

\* handleCompetitionToggle, then the effects of the render it causes: the sync
\* of competitionState with config, the loadStats effect, the competition effect
HandleCompetitionToggle ==
    LET nextValue == IF competitionState = Null THEN ~configIsCompeting
                     ELSE ~Val(competitionState)
        aborted == abort(loadCalls)
        pendingAfterSync == nextValue # configIsCompeting
    IN  /\ (nextValue = configIsCompeting) => loadStatsSeqRef < MaxLoadCalls
        /\ competitionState' = Some(nextValue)
        /\ competitionPendingRef' = pendingAfterSync
        /\ loadCalls' = loadStats(Closure(Some(nextValue), configIsCompeting),
                                  pendingAfterSync, Some(nextValue),
                                  configIsCompeting, aborted)
        /\ loadStatsSeqRef' = Len(loadCalls')
        /\ competitionRequest' =
               IF nextValue = configIsCompeting THEN NoCompetitionRequest
               ELSE [phase |-> "debounce", isCompeting |-> nextValue]
        /\ statsFrom' = [kind |-> "optimistic", requestId |-> 0]
        /\ UNCHANGED <<configIsCompeting, refreshing>>

\* The 400 ms timer of the competition effect fires: POST /competition is sent
DebounceFires ==
    /\ competitionRequest.phase = "debounce"
    /\ competitionRequest' = [competitionRequest EXCEPT !.phase = "inflight"]
    /\ UNCHANGED <<configIsCompeting, competitionState, competitionPendingRef,
                   loadStatsSeqRef, loadCalls, refreshing, statsFrom>>

\* POST /competition is answered: setConfig(payload) and the loadStats of the
\* effect's render, then the loadStats effect of the render setConfig causes
CompetitionResolves ==
    /\ competitionRequest.phase = "inflight"
    /\ loadStatsSeqRef + 2 <= MaxLoadCalls
    /\ competitionPendingRef' = FALSE
    /\ configIsCompeting' = competitionRequest.isCompeting
    /\ LET fromThen == loadStats(Closure(competitionState, configIsCompeting),
                                 FALSE, competitionState, configIsCompeting, loadCalls)
       IN  loadCalls' = loadStats(Closure(competitionState, configIsCompeting'),
                                  FALSE, competitionState, configIsCompeting', fromThen)
    /\ loadStatsSeqRef' = Len(loadCalls')
    /\ competitionRequest' = NoCompetitionRequest
    /\ UNCHANGED <<competitionState, refreshing, statsFrom>>

\* POST /competition fails: the rollback, then the loadStats effect of the
\* render the rollback causes
CompetitionRejects ==
    /\ competitionRequest.phase = "inflight"
    /\ loadStatsSeqRef < MaxLoadCalls
    /\ competitionPendingRef' = FALSE
    /\ competitionState' = Some(configIsCompeting)
    /\ statsFrom' = [kind |-> "rollback", requestId |-> 0]
    /\ loadCalls' = loadStats(Closure(Some(configIsCompeting), configIsCompeting),
                              FALSE, Some(configIsCompeting), configIsCompeting,
                              loadCalls)
    /\ loadStatsSeqRef' = Len(loadCalls')
    /\ competitionRequest' = NoCompetitionRequest
    /\ UNCHANGED <<configIsCompeting, refreshing>>

\* mutant: a settled call writes whether or not it was superseded or aborted
StatsSettle_writesAlways(requestId) ==
    /\ requestId \in 1..Len(loadCalls)
    /\ loadCalls[requestId].phase = "waiting"
    /\ loadCalls' = [loadCalls EXCEPT ![requestId].phase = "written"]
    /\ statsFrom' = [kind |-> "loadStats", requestId |-> requestId]
    /\ UNCHANGED <<configIsCompeting, competitionState, competitionPendingRef,
                   loadStatsSeqRef, refreshing, competitionRequest>>

\* Promise.allSettled of a call settles: loadStats from its await to its end
StatsSettle(requestId) ==
    /\ requestId \in 1..Len(loadCalls)
    /\ loadCalls[requestId].phase = "waiting"
    /\ IF loadCalls[requestId].aborted \/ loadStatsSeqRef # requestId
       THEN /\ loadCalls' = [loadCalls EXCEPT ![requestId].phase = "discarded"]
            /\ UNCHANGED statsFrom
       ELSE /\ loadCalls' = [loadCalls EXCEPT ![requestId].phase = "written"]
            /\ statsFrom' = [kind |-> "loadStats", requestId |-> requestId]
    /\ UNCHANGED <<configIsCompeting, competitionState, competitionPendingRef,
                   loadStatsSeqRef, refreshing, competitionRequest>>

-----------------------------------------------------------------------------
(* The calls of the ranking engine *)

ComputeLeaderboard ==
    /\ op = "none"
    /\ op' = "compute"
    /\ leaderboard' = computeLeaderboard(stats, selfUsername)
    /\ UNCHANGED <<stats, selfUsername, opts, slices, rankingFrame>>

SliceLeaderboard ==
    /\ op = "none"
    /\ \E podiumCount \in 0..MaxPodiumCount, aroundCount \in 0..MaxAroundCount :
        /\ opts' = [podiumCount |-> podiumCount, aroundCount |-> aroundCount]
        /\ slices' = sliceLeaderboard(stats, selfUsername, podiumCount, aroundCount)
    /\ op' = "slice"
    /\ UNCHANGED <<stats, selfUsername, leaderboard, rankingFrame>>

-----------------------------------------------------------------------------
(* Specifications: each runs one component and leaves the others at rest *)

\* No award call has been made
InitAwardCalls ==
    /\ awardCall = [c \in Callers |-> IdleCall]
    /\ prevAward = Null
    /\ awardCount = 0

InitRankingFrame ==
    /\ InitAwardVars
    /\ InitRaceVars
    /\ InitBackfillVars
    /\ InitHonorVars
    /\ InitSyncVars
    /\ InitStatRaceVars
    /\ InitClientVars
    /\ InitRetryVars
    /\ InitSocialVars
    /\ InitAccountVars
    /\ InitFormatVars
    /\ InitBucketVars
    /\ InitStreakVars
    /\ InitWeeklyVars
    /\ InitWebVars

InitAwardFrame ==
    /\ InitRankingVars
    /\ InitRaceVars
    /\ InitBackfillVars
    /\ InitHonorVars
    /\ InitSyncVars
    /\ InitStatRaceVars
    /\ InitClientVars
    /\ InitRetryVars
    /\ InitSocialVars
    /\ InitAccountVars
    /\ InitFormatVars
    /\ InitBucketVars
    /\ InitStreakVars
    /\ InitWeeklyVars
    /\ InitWebVars

InitRaceFrame ==
    /\ InitRankingVars
    /\ InitAwardCalls
    /\ InitBackfillVars
    /\ InitHonorVars
    /\ InitSyncVars
    /\ InitStatRaceVars
    /\ InitClientVars
    /\ InitRetryVars
    /\ InitSocialVars
    /\ InitAccountVars
    /\ InitFormatVars
    /\ InitBucketVars
    /\ InitStreakVars
    /\ InitWeeklyVars
    /\ InitWebVars

InitBackfillFrame ==
    /\ InitRankingVars
    /\ InitAwardCalls
    /\ InitRaceVars
    /\ InitHonorVars
    /\ InitSyncVars
    /\ InitStatRaceVars
    /\ InitClientVars
    /\ InitRetryVars
    /\ InitSocialVars
    /\ InitAccountVars
    /\ InitFormatVars
    /\ InitBucketVars
    /\ InitStreakVars
    /\ InitWeeklyVars
    /\ InitWebVars

InitHonorFrame ==
    /\ InitRankingVars
    /\ InitAwardVars
    /\ InitRaceVars
    /\ InitBackfillVars
    /\ InitSyncVars
    /\ InitStatRaceVars
    /\ InitClientVars
    /\ InitRetryVars
    /\ InitSocialVars
    /\ InitAccountVars
    /\ InitFormatVars
    /\ InitBucketVars
    /\ InitStreakVars
    /\ InitWeeklyVars
    /\ InitWebVars

InitSyncFrame ==
    /\ InitRankingVars
    /\ InitAwardCalls
    /\ InitRaceVars
    /\ InitBackfillVars
    /\ InitHonorVars
    /\ InitStatRaceVars
    /\ InitClientVars
    /\ InitRetryVars
    /\ InitSocialVars
    /\ InitAccountVars
    /\ InitFormatVars
    /\ InitBucketVars
    /\ InitStreakVars
    /\ InitWeeklyVars
    /\ InitWebVars

InitStatRaceFrame ==
    /\ InitRankingVars
    /\ InitAwardVars
    /\ InitRaceVars
    /\ InitBackfillVars
    /\ InitHonorVars
    /\ now = 0
    /\ syncCache = [u \in SyncUsers |-> Null]
    /\ providerCalls = 0
    /\ syncTask = [c \in Callers |-> [u \in SyncUsers |-> "idle"]]
    /\ lastSync = Null
    /\ statsRead = IdleRead
    /\ tickRun = IdleTick
    /\ engine = RunningEngine
    /\ InitClientVars
    /\ InitRetryVars
    /\ InitSocialVars
    /\ InitAccountVars
    /\ InitFormatVars
    /\ InitBucketVars
    /\ InitStreakVars
    /\ InitWeeklyVars
    /\ InitWebVars

InitClientFrame ==
    /\ InitRankingVars
    /\ InitAwardVars
    /\ InitRaceVars
    /\ InitBackfillVars
    /\ InitHonorVars
    /\ InitSyncVars
    /\ InitStatRaceVars
    /\ InitRetryVars
    /\ InitSocialVars
    /\ InitAccountVars
    /\ InitFormatVars
    /\ InitBucketVars
    /\ InitStreakVars
    /\ InitWeeklyVars
    /\ InitWebVars

InitRetryFrame ==
    /\ InitRankingVars
    /\ InitAwardVars
    /\ InitRaceVars
    /\ InitBackfillVars
    /\ InitHonorVars
    /\ InitSyncVars
    /\ InitStatRaceVars
    /\ InitClientVars
    /\ InitSocialVars
    /\ InitAccountVars
    /\ InitFormatVars
    /\ InitBucketVars
    /\ InitStreakVars
    /\ InitWeeklyVars
    /\ InitWebVars

InitSocialFrame ==
    /\ InitRankingVars
    /\ InitAwardCalls
    /\ InitRaceVars
    /\ InitBackfillVars
    /\ InitHonorVars
    /\ InitSyncVars
    /\ InitStatRaceVars
    /\ InitClientVars
    /\ InitRetryVars
    /\ InitAccountVars
    /\ InitFormatVars
    /\ InitBucketVars
    /\ InitStreakVars
    /\ InitWeeklyVars
    /\ InitWebVars

InitAccountFrame ==
    /\ InitRankingVars
    /\ InitAwardVars
    /\ InitRaceVars
    /\ InitBackfillVars
    /\ InitHonorVars
    /\ InitSyncVars
    /\ InitStatRaceVars
    /\ InitClientVars
    /\ InitRetryVars
    /\ InitSocialVars
    /\ InitFormatVars
    /\ InitBucketVars
    /\ InitStreakVars
    /\ InitWeeklyVars
    /\ InitWebVars

InitFormatFrame ==
    /\ InitRankingVars
    /\ InitAwardVars
    /\ InitRaceVars
    /\ InitBackfillVars
    /\ InitHonorVars
    /\ InitSyncVars
    /\ InitStatRaceVars
    /\ InitClientVars
    /\ InitRetryVars
    /\ InitSocialVars
    /\ InitAccountVars
    /\ InitBucketVars
    /\ InitStreakVars
    /\ InitWeeklyVars
    /\ InitWebVars

InitBucketFrame ==
    /\ InitRankingVars
    /\ InitAwardVars
    /\ InitRaceVars
    /\ InitBackfillVars
    /\ InitHonorVars
    /\ InitSyncVars
    /\ InitStatRaceVars
    /\ InitClientVars
    /\ InitRetryVars
    /\ InitSocialVars
    /\ InitAccountVars
    /\ InitFormatVars
    /\ InitStreakVars
    /\ InitWeeklyVars
    /\ InitWebVars

InitStreakFrame ==
    /\ InitRankingVars
    /\ InitAwardVars
    /\ InitRaceVars
    /\ InitBackfillVars
    /\ InitHonorVars
    /\ InitSyncVars
    /\ InitStatRaceVars
    /\ InitClientVars
    /\ InitRetryVars
    /\ InitSocialVars
    /\ InitAccountVars
    /\ InitFormatVars
    /\ InitBucketVars
    /\ InitWeeklyVars
    /\ InitWebVars

InitWeeklyFrame ==
    /\ InitRankingVars
    /\ InitAwardVars
    /\ InitRaceVars
    /\ InitBackfillVars
    /\ InitHonorVars
    /\ InitSyncVars
    /\ InitStatRaceVars
    /\ InitClientVars
    /\ InitRetryVars
    /\ InitSocialVars
    /\ InitAccountVars
    /\ InitFormatVars
    /\ InitBucketVars
    /\ InitStreakVars
    /\ InitWebVars

InitWebFrame ==
    /\ InitRankingVars
    /\ InitAwardVars
    /\ InitRaceVars
    /\ InitBackfillVars
    /\ InitHonorVars
    /\ InitSyncVars
    /\ InitStatRaceVars
    /\ InitClientVars
    /\ InitRetryVars
    /\ InitSocialVars
    /\ InitAccountVars
    /\ InitFormatVars
    /\ InitBucketVars
    /\ InitStreakVars
    /\ InitWeeklyVars

(* The ranking engine: an input list, then one call *)

InitRanking ==
    /\ \E n \in 0..MaxLen : stats \in [1..n -> DailyStat]
    /\ selfUsername \in SelfUsernames
    /\ op = "none"
    /\ opts = [podiumCount |-> 0, aroundCount |-> 0]
    /\ leaderboard = <<>>
    /\ slices = sliceLeaderboard(<<>>, selfUsername, 0, 0)
    /\ InitRankingFrame

NextRanking ==
    \/ ComputeLeaderboard
    \/ SliceLeaderboard

SpecRanking == InitRanking /\ [][NextRanking]_vars

(* The award entry points *)

InitAward ==
    /\ InitAwardVars
    /\ InitAwardFrame

\* One caller making award calls one after the other
NextAward ==
    \/ AwardDailyAchievements("tick") /\ UNCHANGED awardFrame
    \/ AwardWeeklyAchievements("tick") /\ UNCHANGED awardFrame
    \/ GrantAchievement("tick") /\ UNCHANGED awardFrame

SpecAward == InitAward /\ [][NextAward]_vars

(* Racing grantAchievement calls *)

InitGrantRace ==
    /\ achievements = <<>>
    /\ InitRaceVars
    /\ InitRaceFrame

NextGrantRace ==
    \E c \in Callers :
        \/ CallGrantAchievement(c) /\ UNCHANGED raceFrame
        \/ UpsertAtOnce(c) /\ UNCHANGED raceFrame
        \/ UpsertSelect(c) /\ UNCHANGED raceFrame
        \/ UpsertWrite(c) /\ UNCHANGED raceFrame

SpecGrantRace == InitGrantRace /\ [][NextGrantRace]_vars

(* The backfill job run over a fixed history, once or twice *)

InitBackfill ==
    /\ achievements = <<>>
    /\ \E pick \in [1..Len(DailySlots) -> {Null} \cup {Some(v) : v \in DailyRowValues}] :
           dailyRows = loadDailyHistory(pick)
    /\ \E pick \in [1..Len(WeeklySlots) -> {Null} \cup {Some(v) : v \in WeeklyRowValues}] :
           weeklyRows = loadWeeklyHistory(pick)
    /\ backfill = IdleBackfill
    /\ summaries = <<>>
    /\ backfillRuns = 0
    /\ dbFailures = 0
    /\ InitBackfillFrame

NextBackfill ==
    \/ StartBackfill /\ UNCHANGED backfillFrame
    \/ AwardDailyRow /\ UNCHANGED backfillFrame
    \/ BuildWeeklyBuckets /\ UNCHANGED backfillFrame
    \/ AwardWeeklyBucket /\ UNCHANGED backfillFrame
    \/ StartWeeklyFallback /\ UNCHANGED backfillFrame
    \/ AwardWeeklyFallback /\ UNCHANGED backfillFrame
    \/ FinishBackfill /\ UNCHANGED backfillFrame

SpecBackfill == InitBackfill /\ [][NextBackfill]_vars

(* Honor titles resolved from a list of grants *)

InitHonor ==
    /\ \/ \E n \in 0..MaxHonorGrants : honorGrants \in [1..n -> HonorGrantChoices]
       \/ \E profile \in HonorProfiles : honorGrants = GrantsOfProfile(profile)
    /\ honorOp = "none"
    /\ honorTitles = resolveHonorTitlesByUserId(<<>>, <<>>)
    /\ honorReordered = [order |-> <<>>, titles |-> resolveHonorTitlesByUserId(<<>>, <<>>)]
    /\ InitHonorFrame

NextHonor == ResolveHonorTitlesByUserId /\ UNCHANGED honorFrame

SpecHonor == InitHonor /\ [][NextHonor]_vars

(* The sync/cache engine: the clock, ticks, on-demand syncs and reads *)

InitSync ==
    /\ achievements = <<>>
    /\ InitSyncVars
    /\ InitSyncFrame

NextSync ==
    \/ AdvanceClock /\ UNCHANGED syncFrame
    \/ \E u \in SyncUsers, bypassCache \in BOOLEAN :
           SyncUser(u, bypassCache) /\ UNCHANGED syncFrame
    \/ RunTick /\ UNCHANGED syncFrame
    \/ Stop /\ UNCHANGED syncFrame
    \/ \E c \in Callers, u \in SyncUsers : ProviderResponds(c, u) /\ UNCHANGED syncFrame
    \/ \E userIds \in SUBSET SyncUsers : GetStats(userIds) /\ UNCHANGED syncFrame

SpecSync == InitSync /\ [][NextSync]_vars

\* A provider call in flight returns: the client answers or times out
SpecSyncFair ==
    /\ SpecSync
    /\ \A c \in Callers, u \in SyncUsers :
           WF_vars(ProviderResponds(c, u) /\ UNCHANGED syncFrame)

(* Racing upsertDailyStat calls for one user and period *)

InitStatRace ==
    /\ dailyStats = <<>>
    /\ InitStatRaceVars
    /\ InitStatRaceFrame

NextStatRace ==
    \E c \in Callers :
        \/ CallUpsertDailyStat(c) /\ UNCHANGED statRaceFrame
        \/ StatUpsertAtOnce(c) /\ UNCHANGED statRaceFrame
        \/ StatUpsertSelect(c) /\ UNCHANGED statRaceFrame
        \/ StatUpsertWrite(c) /\ UNCHANGED statRaceFrame

SpecStatRace == InitStatRace /\ [][NextStatRace]_vars

(* The provider client: calls made one after the other *)

InitClient ==
    /\ InitClientVars
    /\ InitClientFrame

NextClient ==
    \/ \E username \in ProviderUsernames : CallProvider(username) /\ UNCHANGED clientFrame
    \/ \E outcome \in HttpOutcomes : ClientReturns(outcome) /\ UNCHANGED clientFrame

SpecClient == InitClient /\ [][NextClient]_vars

(* withDbRetry around one store operation after the other *)

InitRetry ==
    /\ InitRetryVars
    /\ InitRetryFrame

NextRetry ==
    \/ \E label \in DbRetryLabels : CallWithDbRetry(label) /\ UNCHANGED retryFrame
    \/ RunResolves /\ UNCHANGED retryFrame
    \/ \E error \in DbErrors : RunRejects(error) /\ UNCHANGED retryFrame

SpecRetry == InitRetry /\ [][NextRetry]_vars

(* The leaderboard and the achievements of others, as a viewer is served   *)
(* them: a social graph, visibility settings and stored rows, then one     *)
(* request                                                                 *)

\* The grant rows held while the viewer asks: one of each user
SocialGrants ==
    <<BoardGrant(1, "quick-boot-4h", "daily", "2026-02-01", 1),
      BoardGrant(2, "quick-boot-4h", "daily", "2026-02-01", 1),
      BoardGrant(3, "workweek-warrior-40h", "weekly", "2026-W05", 2)>>

InitSocial ==
    /\ achievements = SocialGrants
    /\ users \in [SocialUserIds ->
                     [id : SocialUserIds, wakawarsUsername : Usernames,
                      statsVisibility : StatsVisibility, isCompeting : BOOLEAN]]
    /\ \A id \in SocialUserIds :
           /\ users[id].id = id
           /\ users[id].wakawarsUsername = WakawarsUsername(id)
    /\ users[ViewerId].statsVisibility # "friends"
    /\ users[3].isCompeting
    /\ friendIds \in SUBSET (SocialUserIds \ {ViewerId})
    /\ incomingFriends \in SUBSET (SocialUserIds \ {ViewerId})
    /\ groupPeerIds \in SUBSET (SocialUserIds \ {ViewerId})
    /\ storedStats \in [SocialUserIds -> {Null} \cup {Some(v) : v \in StoredStatValues}]
    /\ \A id \in {ViewerId, 3} :
           storedStats[id] \in {Null} \cup {Some(v) : v \in {w \in StoredStatValues :
                                                              w.status = "ok"}}
    /\ request = NoRequest
    /\ InitSocialFrame

NextSocial ==
    \/ GetStatsToday /\ UNCHANGED socialFrame
    \/ \E username \in RequestedUsernames :
           GetAchievementsOf(username) /\ UNCHANGED socialFrame

SpecSocial == InitSocial /\ [][NextSocial]_vars

-----------------------------------------------------------------------------
(* The achievement board and display served from a list of grant rows *)

RECURSIVE GrantListsOf(_)
GrantListsOf(length) ==
    IF length = 0 THEN {<<>>}
    ELSE LET shorter == GrantListsOf(length - 1)
         IN  shorter \cup
             {Append(rows, grant) : rows \in {r \in shorter : Len(r) = length - 1},
                                    grant \in BoardGrantChoices}

BoardGrantLists ==
    {rows \in GrantListsOf(MaxBoardGrants) :
        \A i, j \in 1..Len(rows) : i # j => rows[i] # rows[j]}

InitBoard ==
    /\ achievements \in BoardGrantLists
    /\ InitSocialVars
    /\ InitSocialFrame

NextBoard ==
    \/ GetAchievements /\ UNCHANGED socialFrame
    \/ \E username \in RequestedUsernames :
           GetAchievementsOf(username) /\ UNCHANGED socialFrame

SpecBoard == InitBoard /\ [][NextBoard]_vars

-----------------------------------------------------------------------------
(* Account requests racing on a user table *)

AccountTables ==
    {<<>>,
     <<AccountRecord(1, "mo", "key")>>,
     <<AccountRecord(1, "mo", "key"), AccountRecord(2, "amy", "key")>>}

InitAccount ==
    /\ accounts \in AccountTables
    /\ accountRequests = [r \in AccountRequestIds |-> IdleAccountRequest]
    /\ usernameIndex \in BOOLEAN
    /\ InitAccountFrame

NextAccount ==
    \/ \E r \in AccountRequestIds, rawUsername \in RawUsernames,
          rawApiKey \in RawApiKeys, token \in SessionTokens(accounts) :
           PostConfig(r, rawUsername, rawApiKey, token) /\ UNCHANGED accountFrame
    \/ \E r \in AccountRequestIds, rawUsername \in RawUsernames,
          token \in SessionTokens(accounts) :
           PostUsername(r, rawUsername, token) /\ UNCHANGED accountFrame
    \/ \E r \in AccountRequestIds : CheckUsername(r) /\ UNCHANGED accountFrame
    \/ \E r \in AccountRequestIds : WriteUsername(r) /\ UNCHANGED accountFrame

SpecAccount == InitAccount /\ [][NextAccount]_vars

-----------------------------------------------------------------------------
(* formatDelta called once on a delta and a threshold *)

InitFormat ==
    /\ formatInput \in [deltaSeconds : DeltaInputs, thresholdSeconds : ThresholdInputs]
    /\ formatOutput = Null
    /\ InitFormatFrame

NextFormat ==
    \/ FormatDelta /\ UNCHANGED formatFrame

SpecFormat == InitFormat /\ [][NextFormat]_vars

-----------------------------------------------------------------------------
(* Weekly buckets built from a list of daily rows *)

BucketRow(user_id, date_key, status, total_seconds, fetched_at) ==
    [user_id |-> user_id, date_key |-> date_key, status |-> status,
     total_seconds |-> total_seconds, fetched_at |-> fetched_at, payload |-> Null]

\* Rows that short histories are drawn from: two users, days of two ISO
\* weeks, statuses other than ok, and date keys that name no day
BucketRowChoices ==
    {BucketRow(1, "2026-02-01", "ok", Hour, 2),
     BucketRow(1, "2026-02-02", "ok", Hour, 4),
     BucketRow(1, "2026-02-03", "ok", 2 * Hour, 3),
     BucketRow(1, "2026-02-02", "rate_limited", Hour, 4),
     BucketRow(1, "2026-13-01", "ok", Hour, 4),
     BucketRow(1, "2026-2-3", "ok", 2 * Hour, 3),
     BucketRow(2, "2026-02-01", "ok", Hour, 1),
     BucketRow(2, "2026-02-02", "ok", 2 * Hour, 3),
     BucketRow(2, "2026-02-03", "error", Hour, 4)}

RECURSIVE BucketRowListsOf(_)
BucketRowListsOf(length) ==
    IF length = 0 THEN {<<>>}
    ELSE LET shorter == BucketRowListsOf(length - 1)
         IN  shorter \cup
             {Append(rows, row) : rows \in {r \in shorter : Len(r) = length - 1},
                                  row \in BucketRowChoices}

\* ww_daily_stat holds one row per user and date key
BucketRowLists ==
    {rows \in BucketRowListsOf(MaxBucketRows) :
        \A i, j \in 1..Len(rows) :
            (rows[i].user_id = rows[j].user_id /\ rows[i].date_key = rows[j].date_key)
                => i = j}

InitBuckets ==
    /\ bucketRows \in BucketRowLists
    /\ bucketResult = Null
    /\ InitBucketFrame

NextBuckets ==
    \/ CreateWeeklyBuckets /\ UNCHANGED bucketFrame

SpecBuckets == InitBuckets /\ [][NextBuckets]_vars

-----------------------------------------------------------------------------
(* The week streak: a list of context keys, then one call *)

\* Weeks either side of the year boundary, a week number the year 2025 does not
\* reach, a key with a prefix, and keys the pattern or the range test drops
StreakKeyChoices ==
    {"2025-W52", "2025-W53", "2026-W01", "2026-W02", "2026-W04",
     "weekly:2026-W02", "2026-W00", "2026-W54", "2026-02-01"}

RECURSIVE StreakKeyListsOf(_)
StreakKeyListsOf(length) ==
    IF length = 0 THEN {<<>>}
    ELSE LET shorter == StreakKeyListsOf(length - 1)
         IN  shorter \cup
             {Append(keys, key) : keys \in {k \in shorter : Len(k) = length - 1},
                                  key \in StreakKeyChoices}

InitStreak ==
    /\ streakKeys \in StreakKeyListsOf(MaxStreakKeys)
    /\ streakResult = Null
    /\ InitStreakFrame

NextStreak ==
    \/ GetLongestConsecutiveWeekStreak /\ UNCHANGED streakFrame

SpecStreak == InitStreak /\ [][NextStreak]_vars

-----------------------------------------------------------------------------
(* The leaderboards of the viewer: users, stored and cached stats, then one read *)

InitStatsFrame ==
    /\ InitRankingVars
    /\ InitAwardCalls
    /\ InitRaceVars
    /\ InitBackfillVars
    /\ InitHonorVars
    /\ InitSyncVars
    /\ InitStatRaceVars
    /\ InitClientVars
    /\ InitRetryVars
    /\ InitAccountVars
    /\ InitFormatVars
    /\ InitBucketVars
    /\ InitStreakVars
    /\ InitWebVars

\* Stored daily stats with two different totals
DailyStatChoices ==
    StoredStatValues \cup {[totalSeconds |-> 2 * Hour, status |-> "ok", error |-> Null]}

InitStats ==
    /\ achievements = <<>>
    /\ users \in [SocialUserIds ->
                     [id : SocialUserIds, wakawarsUsername : Usernames,
                      statsVisibility : StatsVisibility, isCompeting : BOOLEAN]]
    /\ \A id \in SocialUserIds :
           /\ users[id].id = id
           /\ users[id].wakawarsUsername = WakawarsUsername(id)
    /\ users[3].isCompeting
    /\ friendIds \in SUBSET (SocialUserIds \ {ViewerId})
    /\ incomingFriends \in {{}, SocialUserIds \ {ViewerId}}
    /\ groupPeerIds = {}
    /\ storedStats \in [SocialUserIds -> {Null} \cup {Some(v) : v \in DailyStatChoices}]
    /\ storedStats[2] \in {Null} \cup {Some(v) : v \in StoredStatValues}
    /\ storedStats[3] # Null /\ Val(storedStats[3]).status = "ok"
    /\ weeklyCacheStats \in
           [SocialUserIds -> {Null} \cup {Some(v) : v \in WeeklyResultValues}]
    /\ weeklyCacheStats[ViewerId] # Null
    /\ weeklyCacheStats[2] = Null
    /\ weeklyCacheStats[3] # Null /\ Val(weeklyCacheStats[3]).status = "ok"
    /\ request = NoRequest
    /\ InitStatsFrame

NextStats ==
    \/ GetStatsToday /\ UNCHANGED socialFrame
    \/ GetStatsWeekly /\ UNCHANGED socialFrame

SpecStats == InitStats /\ [][NextStats]_vars

-----------------------------------------------------------------------------
(* The web client: a configured page, then loads, refreshes and toggles *)

InitWeb ==
    /\ configIsCompeting \in BOOLEAN
    /\ competitionState = Some(configIsCompeting)
    /\ competitionPendingRef = FALSE
    /\ loadStatsSeqRef = 0
    /\ loadCalls = <<>>
    /\ refreshing = Null
    /\ competitionRequest = NoCompetitionRequest
    /\ statsFrom = NothingLoaded
    /\ InitWebFrame

NextWeb ==
    \/ CallLoadStats /\ UNCHANGED webFrame
    \/ HandleRefresh /\ UNCHANGED webFrame
    \/ \E fulfilled \in BOOLEAN : RefreshSettles(fulfilled) /\ UNCHANGED webFrame
    \/ HandleCompetitionToggle /\ UNCHANGED webFrame
    \/ DebounceFires /\ UNCHANGED webFrame
    \/ CompetitionResolves /\ UNCHANGED webFrame
    \/ CompetitionRejects /\ UNCHANGED webFrame
    \/ \E requestId \in 1..MaxLoadCalls : StatsSettle(requestId) /\ UNCHANGED webFrame

SpecWeb == InitWeb /\ [][NextWeb]_vars

-----------------------------------------------------------------------------
(* Vocabulary of the ranking properties *)

Strip(e) == [username |-> e.username, totalSeconds |-> e.totalSeconds, status |-> e.status]

Count(list, d) == Cardinality({i \in 1..Len(list) : Strip(list[i]) = d})

EntriesOf(list) == {Strip(list[i]) : i \in 1..Len(list)}

UsernamesOf(list) == {list[i].username : i \in 1..Len(list)}

DistinctUsernames(list) ==
    \A i, j \in 1..Len(list) : list[i].username = list[j].username => i = j

\* the status ranks the ranking properties name
StatusRank(status) ==
    CASE status = "ok" -> 0
      [] status = "private" -> 1
      [] status = "not_found" -> 2
      [] status = "error" -> 3

\* a may stand directly before b under the three-key order
InOrder(a, b) ==
    \/ StatusRank(a.status) < StatusRank(b.status)
    \/ /\ a.status = b.status
       /\ \/ a.totalSeconds > b.totalSeconds
          \/ /\ a.totalSeconds = b.totalSeconds
             /\ CollationKey(a.username) <= CollationKey(b.username)

IsSorted(list) == \A i \in 1..(Len(list) - 1) : InOrder(list[i], list[i + 1])

OkIndexes(list) == {i \in 1..Len(list) : list[i].status = "ok"}

AllOkZero(list) == \A i \in OkIndexes(list) : list[i].totalSeconds = 0

\* the ok-only sublist of a sorted list
OkOnly(list) == LET IsOk(e) == e.status = "ok" IN SelectSeq(list, IsOk)

-----------------------------------------------------------------------------
(* C1: computeLeaderboard returns a list of the input's length holding      *)
(* exactly the input entries: every (username, totalSeconds, status)        *)
(* occurs as often in the output as in the input.                           *)
C1_NoEntryDroppedOrDuplicated ==
    op = "compute" =>
        /\ Len(leaderboard) = Len(stats)
        /\ \A d \in DailyStat : Count(leaderboard, d) = Count(stats, d)

C1_Witness ==
    /\ op = "compute"
    /\ Len(stats) = 3
    /\ \E i \in 1..3 : stats[i].status # "ok"
    /\ \E i, j \in 1..3 : i # j /\ stats[i] = stats[j]
    /\ \E i \in 1..3 : Strip(leaderboard[i]) # stats[i]

(* C2: the output of computeLeaderboard and the ordered list of             *)
(* sliceLeaderboard are sorted by status rank ascending, then totalSeconds  *)
(* descending, then username ascending: no adjacent pair is out of order.   *)
C2_SortedByStatusTimeUsername ==
    /\ op = "compute" => IsSorted(leaderboard)
    /\ op = "slice" => IsSorted(slices.ordered)

C2_Witness ==
    /\ op = "compute"
    /\ Len(stats) = 3
    /\ ~IsSorted(stats)
    /\ leaderboard[1].status = "ok" /\ leaderboard[2].status = "ok"
    /\ leaderboard[1].totalSeconds = leaderboard[2].totalSeconds
    /\ leaderboard[1].username # leaderboard[2].username
    /\ leaderboard[3].status # "ok"

(* C3: when not every ok entry has totalSeconds 0, ok entries with equal    *)
(* totalSeconds share a rank and every ok entry's rank is 1 plus the number *)
(* of ok entries with strictly greater totalSeconds (ranks read 1,1,3).     *)
C3_CompetitionRanks ==
    (op = "compute" /\ ~AllOkZero(leaderboard)) =>
        \A i \in OkIndexes(leaderboard) :
            /\ leaderboard[i].rank =
                   Some(1 + Cardinality({j \in OkIndexes(leaderboard) :
                            leaderboard[j].totalSeconds > leaderboard[i].totalSeconds}))
            /\ \A j \in OkIndexes(leaderboard) :
                   leaderboard[j].totalSeconds = leaderboard[i].totalSeconds
                       => leaderboard[j].rank = leaderboard[i].rank

C3_Witness ==
    /\ op = "compute"
    /\ Len(leaderboard) = 3
    /\ \A i \in 1..3 : leaderboard[i].status = "ok"
    /\ leaderboard[1].totalSeconds = leaderboard[2].totalSeconds
    /\ leaderboard[3].totalSeconds < leaderboard[2].totalSeconds
    /\ <<leaderboard[1].rank, leaderboard[2].rank, leaderboard[3].rank>>
           = <<Some(1), Some(1), Some(3)>>

(* C4: when there is an ok entry and every ok entry has totalSeconds 0, the *)
(* ok entries get the sequential ranks 1,2,3,... in username-ascending      *)
(* order, so no two ok entries share a rank.                                *)
C4_AllZeroSequentialRanks ==
    (op = "compute" /\ OkIndexes(leaderboard) # {} /\ AllOkZero(leaderboard)) =>
        /\ OkIndexes(leaderboard) = 1..Cardinality(OkIndexes(leaderboard))
        /\ \A i \in OkIndexes(leaderboard) : leaderboard[i].rank = Some(i)
        /\ \A i, j \in OkIndexes(leaderboard) :
               /\ i < j => CollationKey(leaderboard[i].username)
                              <= CollationKey(leaderboard[j].username)
               /\ i # j => leaderboard[i].rank # leaderboard[j].rank

C4_Witness ==
    /\ op = "compute"
    /\ Len(leaderboard) = 3
    /\ \A i \in 1..3 : leaderboard[i].status = "ok" /\ leaderboard[i].totalSeconds = 0
    /\ stats[1].username = "mo" /\ stats[2].username = "amy" /\ stats[3].username = "ben"
    /\ leaderboard[3].rank = Some(3)

(* C5: every entry whose status is not ok comes after every ok entry,       *)
(* whatever its totalSeconds, and has rank null; every ok entry has a       *)
(* non-null rank of at least 1.                                             *)
C5_UnrankedLastAndNull ==
    op = "compute" =>
        \A i \in 1..Len(leaderboard) :
            IF leaderboard[i].status = "ok"
            THEN /\ leaderboard[i].rank # Null
                 /\ Val(leaderboard[i].rank) >= 1
            ELSE /\ leaderboard[i].rank = Null
                 /\ \A j \in OkIndexes(leaderboard) : j < i

C5_Witness ==
    /\ op = "compute"
    /\ Len(leaderboard) = 3
    /\ stats[1].status = "private" /\ stats[1].totalSeconds = 2
    /\ stats[2].status = "ok" /\ stats[2].totalSeconds = 0
    /\ leaderboard[3].status = "private" /\ leaderboard[3].rank = Null
    /\ leaderboard[1].rank = Some(1)

\* The entries of the input that carry the viewer's username
SelfMatches(list, self) == {i \in 1..Len(list) : list[i].username = self}

\* totalSeconds of the first input entry, in input order, named self; 0 if none
FirstInputSelfSeconds(list, self) ==
    IF SelfMatches(list, self) = {} THEN 0
    ELSE list[CHOOSE i \in SelfMatches(list, self) :
                  \A j \in SelfMatches(list, self) : i <= j].totalSeconds

\* totalSeconds of the input entry named self that sorts first (least status
\* rank, then greatest totalSeconds); 0 if none
BestSelfSeconds(list, self) ==
    IF SelfMatches(list, self) = {} THEN 0
    ELSE list[CHOOSE i \in SelfMatches(list, self) :
                  \A j \in SelfMatches(list, self) :
                      \/ StatusRank(list[i].status) < StatusRank(list[j].status)
                      \/ /\ list[i].status = list[j].status
                         /\ list[i].totalSeconds >= list[j].totalSeconds].totalSeconds

(* C6 as stated: deltaSeconds is totalSeconds minus the totalSeconds of the *)
(* first entry of the unsorted input whose username is selfUsername (0 when *)
(* there is none).                                                          *)
C6_DeltaAgainstFirstInputMatch ==
    op = "compute" =>
        \A i \in 1..Len(leaderboard) :
            leaderboard[i].deltaSeconds =
                leaderboard[i].totalSeconds - FirstInputSelfSeconds(stats, selfUsername)

(* C6 amended: deltaSeconds is totalSeconds minus the totalSeconds of the   *)
(* entry named selfUsername that comes first in the sorted order (the only  *)
(* match when usernames are distinct), and minus 0 when no entry matches.   *)
C6_DeltaAgainstFirstSortedMatch ==
    op = "compute" =>
        /\ \A i \in 1..Len(leaderboard) :
               leaderboard[i].deltaSeconds =
                   leaderboard[i].totalSeconds - BestSelfSeconds(stats, selfUsername)
        /\ DistinctUsernames(stats) =>
               BestSelfSeconds(stats, selfUsername) = FirstInputSelfSeconds(stats, selfUsername)

C6_Witness ==
    /\ op = "compute"
    /\ Len(stats) = 3
    /\ Cardinality(SelfMatches(stats, selfUsername)) = 2
    /\ FirstInputSelfSeconds(stats, selfUsername) # BestSelfSeconds(stats, selfUsername)
    /\ \E i \in 1..3 : leaderboard[i].deltaSeconds < 0
    /\ \E i \in 1..3 : leaderboard[i].deltaSeconds = 0

(* C7 as stated: podium, nearMe and rest are pairwise disjoint by username  *)
(* and their union is exactly the set of input entries.                     *)
C7_PairwiseDisjointPartition ==
    op = "slice" =>
        /\ UsernamesOf(slices.podium) \cap UsernamesOf(slices.nearMe) = {}
        /\ UsernamesOf(slices.podium) \cap UsernamesOf(slices.rest) = {}
        /\ UsernamesOf(slices.nearMe) \cap UsernamesOf(slices.rest) = {}
        /\ EntriesOf(slices.podium) \cup EntriesOf(slices.nearMe) \cup EntriesOf(slices.rest)
               = EntriesOf(stats)

(* C7 amended: rest is disjoint by username from podium and from nearMe     *)
(* (podium and nearMe may share entries); the three lists hold only input   *)
(* entries and together cover every input username, and when the input      *)
(* usernames are distinct their union is exactly the set of input entries.  *)
C7_RestDisjointAndCovering ==
    op = "slice" =>
        LET shown == EntriesOf(slices.podium) \cup EntriesOf(slices.nearMe)
                         \cup EntriesOf(slices.rest)
        IN  /\ UsernamesOf(slices.podium) \cap UsernamesOf(slices.rest) = {}
            /\ UsernamesOf(slices.nearMe) \cap UsernamesOf(slices.rest) = {}
            /\ shown \subseteq EntriesOf(stats)
            /\ {e.username : e \in shown} = UsernamesOf(stats)
            /\ DistinctUsernames(stats) => shown = EntriesOf(stats)

C7_Witness ==
    /\ op = "slice"
    /\ Len(stats) = 3
    /\ DistinctUsernames(stats)
    /\ Len(slices.podium) = 1
    /\ Len(slices.nearMe) = 2
    /\ slices.podium[1] = slices.nearMe[1]
    /\ Len(slices.rest) = 1

(* C8: nearMe is the contiguous window of the ok-only ranked list from      *)
(* max(0, i - aroundCount) to min(last, i + aroundCount) around the         *)
(* position i of self in that list, so it contains self; it is empty when   *)
(* no ok entry carries selfUsername (self absent or not ok).                *)
C8_NearMeWindow ==
    op = "slice" =>
        LET ranked == OkOnly(slices.ordered)
            hits == {i \in 1..Len(ranked) : ranked[i].username = selfUsername}
        IN  IF hits = {}
            THEN slices.nearMe = <<>>
            ELSE LET i == CHOOSE h \in hits : \A k \in hits : h <= k
                     lo == Max(1, i - opts.aroundCount)
                     hi == Min(Len(ranked), i + opts.aroundCount)
                 IN  /\ slices.nearMe = [k \in 1..(hi - lo + 1) |-> ranked[lo + k - 1]]
                     /\ selfUsername \in UsernamesOf(slices.nearMe)

C8_Witness ==
    /\ op = "slice"
    /\ opts.aroundCount = 1
    /\ Len(slices.nearMe) = 3
    /\ slices.nearMe[2].username = selfUsername
    /\ DistinctUsernames(stats)

(* C9 as stated: podium is the first podiumCount ok entries of the sorted   *)
(* order and holds no non-ok entry; every non-ok entry is in rest; rest is  *)
(* in sort order; with no ok entry podium and nearMe are empty and rest is  *)
(* the whole sorted input; an empty input gives three empty lists.          *)
C9_PodiumAndRest ==
    op = "slice" =>
        LET ranked == OkOnly(slices.ordered)
            n == Min(opts.podiumCount, Len(ranked))
        IN  /\ slices.podium = [k \in 1..n |-> ranked[k]]
            /\ \A k \in 1..Len(slices.podium) : slices.podium[k].status = "ok"
            /\ \A k \in 1..Len(slices.ordered) :
                   slices.ordered[k].status # "ok"
                       => slices.ordered[k] \in EntriesOf(slices.rest)
            /\ IsSorted(slices.rest)
            /\ ranked = <<>> =>
                   /\ slices.podium = <<>>
                   /\ slices.nearMe = <<>>
                   /\ slices.rest = slices.ordered
            /\ stats = <<>> =>
                   slices.podium = <<>> /\ slices.nearMe = <<>> /\ slices.rest = <<>>

(* C9 amended: as stated, except that a non-ok entry is in rest when its    *)
(* username is not the username of a podium or nearMe entry (so every       *)
(* non-ok entry is, when the input usernames are distinct).                 *)
C9_PodiumAndRestByUsername ==
    op = "slice" =>
        LET ranked == OkOnly(slices.ordered)
            n == Min(opts.podiumCount, Len(ranked))
            picked == UsernamesOf(slices.podium) \cup UsernamesOf(slices.nearMe)
        IN  /\ slices.podium = [k \in 1..n |-> ranked[k]]
            /\ \A k \in 1..Len(slices.podium) : slices.podium[k].status = "ok"
            /\ \A k \in 1..Len(slices.ordered) :
                   (slices.ordered[k].status # "ok"
                        /\ (DistinctUsernames(stats) \/ slices.ordered[k].username \notin picked))
                       => slices.ordered[k] \in EntriesOf(slices.rest)
            /\ IsSorted(slices.rest)
            /\ ranked = <<>> =>
                   /\ slices.podium = <<>>
                   /\ slices.nearMe = <<>>
                   /\ slices.rest = slices.ordered
            /\ stats = <<>> =>
                   slices.podium = <<>> /\ slices.nearMe = <<>> /\ slices.rest = <<>>

C9_Witness ==
    /\ op = "slice"
    /\ Len(stats) = 3
    /\ opts.podiumCount = 2
    /\ Len(slices.podium) = 1
    /\ Len(slices.rest) = 2
    /\ slices.rest[1].status = "not_found"
    /\ slices.rest[2].status = "error"
    /\ slices.rest[1].totalSeconds < slices.rest[2].totalSeconds

-----------------------------------------------------------------------------
(* Vocabulary of the grant-store properties *)

GrantTuple(row) == <<row.userId, row.achievementId, row.contextKind, row.contextKey>>

GrantTuples(rows) == {GrantTuple(rows[i]) : i \in 1..Len(rows)}

(* C10: an award call made with the arguments of the award call that        *)
(* completed just before it adds no row and no tuple (every tuple it grants *)
(* is in the store from its start to its end), and the grant store holds    *)
(* exactly one row per (userId, achievementId, contextKind, contextKey).    *)
C10_AwardTwiceIsIdempotent ==
    /\ \A c \in Callers :
           awardCall[c].repeat =>
               /\ awardCall[c].added = 0
               /\ GrantTuples(GrantsOf(awardCall[c].contextKind, Val(awardCall[c].args)))
                      \subseteq GrantTuples(achievements)
    /\ Cardinality(GrantTuples(achievements)) = Len(achievements)

C10_Witness ==
    \E c \in Callers :
        /\ awardCall[c].repeat
        /\ ~awardCall[c].active
        /\ awardCall[c].contextKind = "daily"
        /\ Val(awardCall[c].args).totalSeconds = 6 * Hour
        /\ Val(awardCall[c].args).status = "ok"
        /\ Len(achievements) = 2

-----------------------------------------------------------------------------
(* Properties of racing grantAchievement calls *)

UniqueGrantTuples == Cardinality(GrantTuples(achievements)) = Len(achievements)

\* One step of the store: nothing, or one row appended under a tuple the
\* store did not hold, or one row replaced by a row of the same tuple.
GrantStepAppendsOrReplaces ==
    LET old == achievements
        new == achievements'
    IN  \/ new = old
        \/ /\ Len(new) = Len(old) + 1
           /\ SubSeq(new, 1, Len(old)) = old
           /\ GrantTuple(new[Len(new)]) \notin GrantTuples(old)
        \/ /\ Len(new) = Len(old)
           /\ \E i \in 1..Len(old) :
                  /\ GrantTuple(new[i]) = GrantTuple(old[i])
                  /\ \A j \in 1..Len(old) : j # i => new[j] = old[j]

(* C11: under every interleaving of grantAchievement calls by the periodic *)
(* sync and a manual sync, the grant store holds at most one row per       *)
(* (userId, achievementId, contextKind, contextKey), and a grant for a     *)
(* tuple the store holds changes nothing but that row's awardedAt and      *)
(* metadata.                                                                *)
C11_OneRowPerTupleUnderRaces ==
    /\ []UniqueGrantTuples
    /\ [][GrantStepAppendsOrReplaces]_vars

\* Both callers raced for one tuple: one insert was refused, and a later
\* grant replaced the awardedAt of the single row.
C11_Witness ==
    /\ upsertCall["manual"].outcome = "rejected"
    /\ upsertCall["tick"].outcome = "updated"
    /\ Len(achievements) = 1
    /\ achievements[1].awardedAt = 3

-----------------------------------------------------------------------------
(* Properties of the backfill job *)

(* C12: a backfill run that follows a completed run over the same history *)
(* creates no grant row: it reports achievementsCreated = 0 and the        *)
(* achievementsAfter of the run before it.                                 *)
C12_SecondBackfillCreatesNothing ==
    \A i \in 2..Len(summaries) :
        /\ summaries[i].achievementsCreated = 0
        /\ summaries[i].achievementsAfter = summaries[i - 1].achievementsAfter

\* Two completed runs over daily rows, two weekly buckets and a weekly row,
\* the first of which created grants and met a database error.
C12_Witness ==
    /\ Len(summaries) = 2
    /\ summaries[1].achievementsCreated >= 4
    /\ summaries[1].weeklyBuckets = 2
    /\ summaries[2].weeklyAwardsProcessed = 3
    /\ dbFailures >= 1

-----------------------------------------------------------------------------
(* Properties of the award entry points *)

(* C13: an award call made with a status other than ok (private, not_found *)
(* or error), whatever its totalSeconds, leaves the grant store as it is   *)
(* and is over at once: it makes no grant.                                 *)
C13_NothingGrantedUnlessOk ==
    [][\A c \in Callers :
          ( /\ awardCall'[c] # awardCall[c]
            /\ awardCall'[c].args # Null
            /\ Val(awardCall'[c].args).status # "ok" )
          => ( /\ achievements' = achievements
               /\ ~awardCall'[c].active
               /\ awardCall'[c].added = 0 )]_vars

\* A private result of six hours was evaluated after an ok one had been
\* granted two achievements.
C13_Witness ==
    \E c \in Callers :
        /\ awardCall[c].args # Null
        /\ Val(awardCall[c].args).status = "private"
        /\ Val(awardCall[c].args).totalSeconds = 6 * Hour
        /\ ~awardCall[c].active
        /\ prevAward = Some([contextKind |-> awardCall[c].contextKind,
                              args |-> Val(awardCall[c].args)])
        /\ Len(achievements) = 2

-----------------------------------------------------------------------------
(* Vocabulary of the honor-title properties *)

HonorUsers == {HonorUserIds[i] : i \in 1..Len(HonorUserIds)}

GrantIndexesOf(userId) == {i \in 1..Len(honorGrants) : honorGrants[i].userId = userId}

UnlockedBy(userId) == {honorGrants[i].achievementId : i \in GrantIndexesOf(userId)}

UnlockCount(userId, achievementId) ==
    Cardinality({i \in GrantIndexesOf(userId) : honorGrants[i].achievementId = achievementId})

\* The first days of the weeks in which the user earned workweek-warrior-40h
FortyWeekStarts(userId) ==
    {Val(parseIsoWeekFromContextKey(honorGrants[i].contextKey)) :
        i \in {j \in GrantIndexesOf(userId) :
                  /\ honorGrants[j].achievementId = "workweek-warrior-40h"
                  /\ honorGrants[j].contextKind = "weekly"
                  /\ parseIsoWeekFromContextKey(honorGrants[j].contextKey) # Null}}

\* The user has a run of k weeks, each seven days after the one before
HasWeekRun(userId, k) ==
    LET starts == FortyWeekStarts(userId)
    IN  \E first \in starts : \A j \in 0..(k - 1) : first + 7 * j \in starts

\* The combo title the declared order of the rules gives the user, if any
ExpectedComboTitle(userId) ==
    IF HasWeekRun(userId, 8) THEN Some("Emperor of Weeks")
    ELSE IF HasWeekRun(userId, 4) THEN Some("Sultan of Weeks")
    ELSE IF UnlockCount(userId, "matrix-120h") >= 2 THEN Some("Matrix Deity")
    ELSE IF UnlockCount(userId, "graph-overflow-100h") >= 2 THEN Some("Overflow Breaker")
    ELSE IF UnlockCount(userId, "green-wall-80h") >= 4 THEN Some("Eternal Green Wall")
    ELSE IF /\ UnlockCount(userId, "language-spectrum-80h") >= 1
            /\ UnlockCount(userId, "editor-arsenal-80h") >= 1
    THEN Some("Master of All Trades")
    ELSE IF /\ UnlockCount(userId, "mono-stack-100h") >= 1
            /\ UnlockCount(userId, "project-monolith-80h") >= 1
    THEN Some("Solo Stack Titan")
    ELSE IF /\ UnlockCount(userId, "ultra-pace-10h") >= 2
            /\ UnlockCount(userId, "iron-week-4h") >= 2
    THEN Some("Unstoppable Machine")
    ELSE Null

\* Achievement a comes before achievement b in the fallback order of the user
Outranks(userId, a, b) ==
    \/ ACHIEVEMENT_PRIORITY(a) > ACHIEVEMENT_PRIORITY(b)
    \/ /\ ACHIEVEMENT_PRIORITY(a) = ACHIEVEMENT_PRIORITY(b)
       /\ UnlockCount(userId, a) > UnlockCount(userId, b)
    \/ /\ ACHIEVEMENT_PRIORITY(a) = ACHIEVEMENT_PRIORITY(b)
       /\ UnlockCount(userId, a) = UnlockCount(userId, b)
       /\ AchievementCollationKey(a) < AchievementCollationKey(b)

(* C14: the titles do not depend on the order of the grants list: resolved *)
(* from any other order of the same grants every user gets the same title, *)
(* and a user of userIds without a grant gets null.                        *)
C14_TitlesIndependentOfGrantOrder ==
    honorOp = "resolved" =>
        /\ honorReordered.titles = honorTitles
        /\ DOMAIN honorTitles = HonorUsers
        /\ \A userId \in HonorUsers :
               GrantIndexesOf(userId) = {} => honorTitles[userId] = Null

\* Four consecutive weeks listed out of order and resolved again reversed
C14_Witness ==
    /\ honorOp = "resolved"
    /\ Len(honorGrants) = 4
    /\ honorGrants[1].contextKey = "2026-W03"
    /\ honorGrants[2].contextKey = "2025-W52"
    /\ honorReordered.order = <<4, 3, 2, 1>>
    /\ honorTitles[1] = Some("Sultan of Weeks")
    /\ honorTitles[3] = Null

(* C15: whenever a combo rule matches, the title is the combo title of the *)
(* first matching rule in the declared order (streak >= 8, streak >= 4,    *)
(* matrix-120h >= 2, graph-overflow-100h >= 2, green-wall-80h >= 4,        *)
(* spectrum with arsenal, mono-stack-100h with monolith, ultra-pace >= 2   *)
(* with iron-week >= 2), whatever the priorities of the other unlocks.     *)
C15_ComboRulesFirstInDeclaredOrder ==
    honorOp = "resolved" =>
        \A userId \in HonorUsers :
            LET expected == ExpectedComboTitle(userId)
            IN  expected # Null => honorTitles[userId] = expected

\* A streak of eight weeks wins over two matrix-120h unlocks and a
\* priority-10 unlock
C15_Witness ==
    /\ honorOp = "resolved"
    /\ HasWeekRun(1, 8)
    /\ UnlockCount(1, "matrix-120h") = 2
    /\ UnlockCount(1, "boss-raid-20h") = 1
    /\ honorTitles[1] = Some("Emperor of Weeks")

(* C16: when no combo rule matches and the user has an unlock, the title   *)
(* is that of the unlocked achievement with the highest priority, ties     *)
(* going to the higher unlock count and then to the smaller achievement id. *)
C16_FallbackByPriorityCountId ==
    honorOp = "resolved" =>
        \A userId \in HonorUsers :
            (ExpectedComboTitle(userId) = Null /\ UnlockedBy(userId) # {}) =>
                \E best \in UnlockedBy(userId) :
                    /\ \A other \in UnlockedBy(userId) \ {best} :
                           Outranks(userId, best, other)
                    /\ honorTitles[userId] = Some(TITLE_BY_ACHIEVEMENT_ID(best))

\* Two priority-8 unlocks: the one unlocked twice wins over the smaller id
C16_Witness ==
    /\ honorOp = "resolved"
    /\ ExpectedComboTitle(1) = Null
    /\ UnlockCount(1, "ultra-pace-10h") = 2
    /\ UnlockCount(1, "editor-arsenal-80h") = 1
    /\ honorTitles[1] = Some("Turbo Engine")

-----------------------------------------------------------------------------
(* Vocabulary of the sync properties *)

\* The last syncUser call reached the provider
ProviderCalled(sync) == sync.callsAfter = sync.callsBefore + 1

\* The rows of the stat store for a user and the period
StatRowsOf(rows, userId) ==
    {i \in 1..Len(rows) : rows[i].userId = userId /\ rows[i].dateKey = SyncPeriodKey}

FailureStatuses == {"error", "private", "not_found"}

TickFinished ==
    /\ tickRun.ticks > 0
    /\ \A u \in SyncUsers : syncTask["tick"][u] = "idle"

C18_GetStatsReadOnly ==
    [][statsRead' # statsRead =>
          /\ UNCHANGED <<providerCalls, dailyStats, syncCache, syncTask, achievements>>
          /\ {r.userId : r \in statsRead'.result}
                 = {u \in statsRead'.userIds : syncCache[u] # Null}
          /\ \A r \in statsRead'.result : r.result = syncCache[r.userId]]_vars

\* Both users asked for, only user 1 cached, and that entry is stale
C18_Witness ==
    /\ statsRead.reads = 1
    /\ statsRead.userIds = {1, 2}
    /\ {r.userId : r \in statsRead.result} = {1}
    /\ syncCache[1] # Null
    /\ syncCache[2] = Null
    /\ now - Val(syncCache[1]).fetchedAt > CacheTtl

(* C19: when the fetches of a tick have all ended, every user that was due *)
(* has been fetched and persisted, whatever the outcome for the others,    *)
(* and a user whose fetch failed has a result with status error, private   *)
(* or not_found; the answer of a fetch leaves exactly one row for the      *)
(* user and period, equal to that result.                                  *)
C19_FailureDoesNotBlockOtherUsers ==
    /\ [](TickFinished =>
             /\ tickRun.persisted = tickRun.due
             /\ \A u \in tickRun.due :
                    /\ tickRun.written[u] # Null
                    /\ StatRowsOf(dailyStats, u) # {}
                    /\ u \in tickRun.failed
                           => Val(tickRun.written[u]).status \in FailureStatuses)
    /\ [][\A u \in tickRun'.persisted \ tickRun.persisted :
              /\ Cardinality(StatRowsOf(dailyStats', u)) = 1
              /\ \A i \in StatRowsOf(dailyStats', u) :
                     dailyStats'[i] = Val(tickRun'.written[u])]_vars

\* A tick where the fetch of user 1 failed and user 2 was still persisted
C19_Witness ==
    /\ TickFinished
    /\ tickRun.due = {1, 2}
    /\ tickRun.failed = {1}
    /\ tickRun.persisted = {1, 2}
    /\ Val(tickRun.written[1]).status = "error"
    /\ Val(tickRun.written[2]).status = "ok"
    /\ \E i \in StatRowsOf(dailyStats, 1) : dailyStats[i].status = "error"
    /\ \E i \in StatRowsOf(dailyStats, 2) : dailyStats[i].status = "ok"

(* C20: under every interleaving of the upserts of two syncs of one user   *)
(* and period, the stat store never has two rows for (userId, periodKey),  *)
(* and once an upsert has written, the one row equals, field by field, the *)
(* result of the upsert that wrote last.                                   *)
C20_LastWriterWins ==
    /\ Cardinality(StatRowsOf(dailyStats, 1)) = IF statWrites = <<>> THEN 0 ELSE 1
    /\ \A i \in StatRowsOf(dailyStats, 1) :
           dailyStats[i] = StatRecord(statWrites[Len(statWrites)])

\* The tick's select saw the row the manual sync had created and its update
\* replaced an ok result by an error result
C20_Witness ==
    /\ Len(statWrites) = 2
    /\ statWrites[1].status = "ok"
    /\ statWrites[2].status = "error"
    /\ statWrites[2].fetchedAt < statWrites[1].fetchedAt
    /\ statUpsert["manual"].outcome = "created"
    /\ statUpsert["tick"].outcome = "updated"
    /\ Len(dailyStats) = 1
    /\ dailyStats[1].status = "error"
    /\ dailyStats[1].error = Some("request failed")

C22_OneCanonicalStatusPerCall ==
    \A i \in 1..Len(clientReturned) :
        LET call == clientReturned[i]
            outcome == call.outcome
            responded == outcome.transport = "response"
            expected ==
                IF responded /\ outcome.httpStatus = 200 /\ outcome.body # Null THEN "ok"
                ELSE IF responded /\ outcome.httpStatus \in {401, 403} THEN "private"
                ELSE IF responded /\ outcome.httpStatus = 404 THEN "not_found"
                ELSE "error"
        IN  /\ ~call.thrown
            /\ call.requests = 1
            /\ call.result # Null
            /\ Val(call.result).status = expected
            /\ Val(call.result).status \in DailyStatStatus
            /\ expected = "ok" => Val(call.result).totalSeconds = Val(outcome.body)
            /\ expected = "error" => Val(call.result).error # Null

\* A 401 answered as private, then a 200 whose body does not parse
C22_Witness ==
    /\ Len(clientReturned) = 2
    /\ clientReturned[1].outcome.httpStatus = 401
    /\ Val(clientReturned[1].result).status = "private"
    /\ clientReturned[2].outcome.httpStatus = 200
    /\ clientReturned[2].outcome.body = Null
    /\ Val(clientReturned[2].result).status = "error"

-----------------------------------------------------------------------------
(* Vocabulary of the retry properties *)

\* The transient connectivity class: an initialization error, one of the
\* codes P1001, P1002, P1017, or a message that tells of a lost connection
InTransientClass(error) ==
    \/ error.class = "PrismaClientInitializationError"
    \/ error.code \in {"P1001", "P1002", "P1017"}
    \/ \E lost \in {<<"can't", "reach", "database", "server">>,
                    <<"connection", "terminated">>,
                    <<"connection", "reset">>} :
           includes(toLowerCase(error.message), lost)

\* In this step run() has rejected
ErrorMet == Len(dbRetry'.errors) = Len(dbRetry.errors) + 1

(* C23: when a wrapped operation rejects, withDbRetry runs it again only   *)
(* if the error is in the transient connectivity class; on any other error *)
(* it sleeps no delay and rethrows that error at once, which ends the call. *)
C23_RetriesOnlyTransientErrors ==
    [][ErrorMet =>
          LET error == dbRetry'.errors[Len(dbRetry'.errors)]
          IN  /\ dbRetry'.pc \in {"running", "thrown"}
              /\ dbRetry'.pc = "running" =>
                     /\ InTransientClass(error)
                     /\ dbRetry'.attempt = dbRetry.attempt + 1
              /\ ~InTransientClass(error) =>
                     /\ dbRetry'.pc = "thrown"
                     /\ dbRetry'.thrown = Some(error)
                     /\ dbRetry'.attempt = dbRetry.attempt
                     /\ dbRetry'.delays = dbRetry.delays]_vars

\* A P1001 was retried after the base delay, and the unique-constraint
\* error met on the second attempt was rethrown
C23_Witness ==
    /\ dbRetry.pc = "thrown"
    /\ Len(dbRetry.errors) = 2
    /\ dbRetry.errors[1].code = "P1001"
    /\ dbRetry.errors[2].code = "P2002"
    /\ dbRetry.errors[2].message = <<"Unique", "constraint", "failed">>
    /\ dbRetry.delays = <<DB_RETRY_BASE_DELAY_MS>>
    /\ dbRetry.thrown = Some(dbRetry.errors[2])

-----------------------------------------------------------------------------
(* Vocabulary of the visibility properties *)

UserIdOf(username) == CHOOSE id \in SocialUserIds : users[id].wakawarsUsername = username

\* The viewer may see the stats of the user: the viewer themselves, a user
\* visible to everyone, or a user visible to friends who is a friend in both
\* directions or a peer in one of the viewer's groups
Viewable(id) ==
    \/ id = ViewerId
    \/ users[id].statsVisibility = "everyone"
    \/ /\ users[id].statsVisibility = "friends"
       /\ \/ id \in friendIds /\ id \in incomingFriends
          \/ id \in groupPeerIds

\* The candidate set of the viewer: the viewer, their friends, their peers
Candidates == {ViewerId} \cup friendIds \cup groupPeerIds

(* C24: in the list handed to computeLeaderboard, the entry of a user the  *)
(* viewer may see carries the stored totalSeconds and status, and the      *)
(* entry of any other user has status private and totalSeconds 0.          *)
C24_RealStatsOnlyWhenViewable ==
    request.kind = "leaderboard" =>
        \A i \in 1..Len(request.stats) :
            LET entry == request.stats[i]
                id == UserIdOf(entry.username)
            IN  IF Viewable(id)
                THEN storedStats[id] # Null =>
                         /\ entry.totalSeconds = Val(storedStats[id]).totalSeconds
                         /\ entry.status = Val(storedStats[id]).status
                ELSE /\ entry.status = "private"
                     /\ entry.totalSeconds = 0

\* amy is visible to friends and has a synced hour; the viewer added her
\* but she did not add the viewer back, and they share no group
C24_Witness ==
    /\ request.kind = "leaderboard"
    /\ users[2].statsVisibility = "friends"
    /\ 2 \in friendIds
    /\ 2 \notin incomingFriends
    /\ 2 \notin groupPeerIds
    /\ storedStats[2] # Null
    /\ \E i \in 1..Len(request.stats) :
           /\ request.stats[i].username = "amy"
           /\ request.stats[i].status = "private"
           /\ request.stats[i].totalSeconds = 0
    /\ users[3].statsVisibility = "no_one"
    /\ 3 \in groupPeerIds
    /\ \E i \in 1..Len(request.stats) :
           /\ request.stats[i].username = "ben"
           /\ request.stats[i].status = "private"

\* The entry of a user in the entries of a leaderboard response
EntryOf(response, id) ==
    LET at == {i \in 1..Len(response.entries) :
                  response.entries[i].username = users[id].wakawarsUsername}
    IN  IF at = {} THEN Null ELSE Some(response.entries[CHOOSE i \in at : TRUE])

\* The rows stored for a private provider account
ProviderPrivateRows == {row \in StoredStatValues : row.status = "private"}

\* The response of the run that differs only in that the user is visible to
\* everyone and stored with the row of a private provider account
ProviderPrivateRun(id, row) ==
    buildDailyLeaderboard(ViewerId,
                          [users EXCEPT ![id].statsVisibility = "everyone"],
                          friendIds, incomingFriends, groupPeerIds,
                          [storedStats EXCEPT ![id] = Some(row)])

(* C25: the entry of a user hidden from the viewer by the visibility rule  *)
(* equals, in status, totalSeconds, error, rank and deltaSeconds, the      *)
(* entry the same user has in the run where the user is visible and stored *)
(* as a private provider account.                                          *)
C25_HiddenLooksLikeProviderPrivate ==
    request.kind = "leaderboard" =>
        \A id \in SocialUserIds \ {ViewerId} :
            (~Viewable(id) /\ EntryOf(request, id) # Null) =>
                \A row \in ProviderPrivateRows :
                    LET hidden == Val(EntryOf(request, id))
                        private == Val(EntryOf(ProviderPrivateRun(id, row), id))
                    IN  /\ hidden.status = private.status
                        /\ hidden.totalSeconds = private.totalSeconds
                        /\ hidden.error = private.error
                        /\ hidden.rank = private.rank
                        /\ hidden.deltaSeconds = private.deltaSeconds

\* The response has exactly one entry for each user of the set and no other
OneEntryEach(response, ids) ==
    /\ Len(response.entries) = Cardinality(ids)
    /\ \A id \in ids : EntryOf(response, id) # Null

\* A user without a usable stat is listed with a status other than ok
UnsyncedShownNotOk(response) ==
    \A id \in SocialUserIds :
        (EntryOf(response, id) # Null
         /\ (storedStats[id] = Null \/ storedStats[id] \cap ProviderPrivateRows # {}
             \/ \E row \in storedStats[id] : row.status = "error"))
            => Val(EntryOf(response, id)).status # "ok"

\* C26 as stated: one entry for every user of the candidate set
C26_OneEntryPerCandidate ==
    request.kind = "leaderboard" =>
        /\ request.httpStatus = 200
        /\ OneEntryEach(request, Candidates)
        /\ UnsyncedShownNotOk(request)

(* C26: the leaderboard request succeeds and its entries hold exactly one  *)
(* entry for every competing user of the candidate set (the viewer, their  *)
(* friends, their group peers); a user with no synced stat or with a       *)
(* failed fetch is listed with a status other than ok.                     *)
C26_OneEntryPerCompetingCandidate ==
    request.kind = "leaderboard" =>
        /\ request.httpStatus = 200
        /\ OneEntryEach(request, {id \in Candidates : users[id].isCompeting})
        /\ UnsyncedShownNotOk(request)

\* Three competing candidates: amy's fetch failed and ben was never synced
C26_Witness ==
    /\ request.kind = "leaderboard"
    /\ Candidates = SocialUserIds
    /\ \A id \in SocialUserIds : users[id].isCompeting /\ Viewable(id)
    /\ \E row \in storedStats[2] : row.status = "error"
    /\ storedStats[3] = Null
    /\ Len(request.entries) = 3
    /\ Val(EntryOf(request, 2)).status = "error"
    /\ Val(EntryOf(request, 3)).error = Some("No stats synced yet")

-----------------------------------------------------------------------------
(* Vocabulary of the board properties *)

\* the grant rows a user holds for an achievement
RowsOf(userId, achievementId) ==
    {i \in 1..Len(achievements) :
        /\ achievements[i].userId = userId
        /\ achievements[i].achievementId = achievementId}

ContextKeysOf(userId, achievementId) ==
    {<<achievements[i].contextKind, achievements[i].contextKey>> :
        i \in RowsOf(userId, achievementId)}

RowsOfUser(userId) == {i \in 1..Len(achievements) : achievements[i].userId = userId}

\* C27: the board of GET /achievements has exactly one item per catalog      
\* definition, in catalog order; the item of an achievement the user holds   
\* rows for has unlocked = true and the count of its unlock summary (the     
\* number of those rows), every other item has unlocked = false and count 0. 
C27_BoardHasOneItemPerDefinition ==
    request.kind = "board" =>
        /\ Len(request.achievements) = Len(ACHIEVEMENT_DEFINITIONS)
        /\ request.totalDefined = Len(request.achievements)
        /\ \A i \in 1..Len(ACHIEVEMENT_DEFINITIONS) :
               LET item == request.achievements[i]
                   held == Cardinality(RowsOf(ViewerId, ACHIEVEMENT_DEFINITIONS[i].id))
               IN  /\ item.id = ACHIEVEMENT_DEFINITIONS[i].id
                   /\ item.unlocked = (held > 0)
                   /\ item.count = held

C27_Witness ==
    /\ request.kind = "board"
    /\ \E i, j \in 1..Len(request.achievements) :
           /\ request.achievements[i].unlocked
           /\ request.achievements[i].count = 2
           /\ ~request.achievements[j].unlocked
           /\ request.achievements[j].count = 0

\* the user whose achievements a display shows
DisplayedUserId == CHOOSE id \in SocialUserIds : users[id].wakawarsUsername = request.username

\* C28: the display of GET /achievements/:username lists exactly the        
\* achievements the user holds a grant row for, each once, with a count equal
\* to the number of its grant rows (its distinct context keys), and          
\* totalUnlocks is the sum of these counts.                                  
C28_DisplayListsUnlockedWithCounts ==
    (request.kind = "display" /\ request.httpStatus = 200) =>
        LET shown == request.achievements
        IN  /\ \A i \in 1..Len(shown) :
                   /\ shown[i].unlocked
                   /\ shown[i].count > 0
                   /\ shown[i].count = Cardinality(RowsOf(DisplayedUserId, shown[i].id))
                   /\ shown[i].count = Cardinality(ContextKeysOf(DisplayedUserId, shown[i].id))
                   /\ \A j \in 1..Len(shown) : shown[j].id = shown[i].id => j = i
            /\ \A i \in RowsOfUser(DisplayedUserId) :
                   \E j \in 1..Len(shown) : shown[j].id = achievements[i].achievementId
            /\ request.totalUnlocks = SumCounts(shown)
            /\ request.totalUnlocks = Cardinality(RowsOfUser(DisplayedUserId))

C28_Witness ==
    /\ request.kind = "display"
    /\ request.httpStatus = 200
    /\ Len(request.achievements) = 2
    /\ \E i \in 1..2 : request.achievements[i].count = 2
    /\ request.totalUnlocks = 3

-----------------------------------------------------------------------------
(* Properties of the achievements of others *)

\* a stat row that stands for whatever is stored for a user
ProbeStat == [status |-> "ok", totalSeconds |-> Hour, error |-> Null]

\* buildDailyStat, run for the user as the leaderboard of the viewer runs it,
\* hands out the stored status and seconds
ShowsRealStats(id) ==
    LET shown == buildDailyStat(users[id], id = ViewerId, Some(ProbeStat), friendIds,
                                incomingFriends \cap Candidates, groupPeerIds)
    IN  shown.status = ProbeStat.status /\ shown.totalSeconds = ProbeStat.totalSeconds

\* C29: canViewUserStats(viewer, target) is true exactly when buildDailyStat
\* shows the real stats of the target to the viewer; the request for the
\* achievements of a known user is answered 200 with the user's achievements
\* in that case, and otherwise 403 with an error and no achievement data.
C29_AchievementsFollowStatsVisibility ==
    /\ \A id \in SocialUserIds :
           canViewUserStats(users[ViewerId], users[id], friendIds, incomingFriends,
                            groupPeerIds) = ShowsRealStats(id)
    /\ (request.kind = "display" /\ request.httpStatus # 404) =>
           LET id == UserIdOf(request.username)
           IN  IF ShowsRealStats(id)
               THEN /\ request.httpStatus = 200
                    /\ request.totalUnlocks = Cardinality(RowsOfUser(id))
               ELSE /\ request.httpStatus = 403
                    /\ DOMAIN request = {"kind", "httpStatus", "username", "error"}
                    /\ request.error = "Achievements are private"

\* a mutual friend who shows stats to no one is asked for, and holds a row
C29_Witness ==
    /\ request.kind = "display"
    /\ request.httpStatus = 403
    /\ LET id == UserIdOf(request.username)
       IN  /\ users[id].statsVisibility = "no_one"
           /\ id \in friendIds \cap incomingFriends
           /\ RowsOfUser(id) # {}

-----------------------------------------------------------------------------
(* Properties of the account requests *)

UsernamesUnique ==
    \A i, j \in 1..Len(accounts) :
        accounts[i].wakawarsUsername = accounts[j].wakawarsUsername => i = j

\* C30: no two users hold the same wakawarsUsername, whatever the
\* interleaving of POST /config and POST /username requests, and a request
\* that ends while another user holds the name it asks for is answered 409
\* and has written nothing.
C30_UniqueUsernamesAndTakenIs409 ==
    /\ UsernamesUnique
    /\ \A r \in AccountRequestIds :
           (accountRequests[r].pc = "done" /\ accountRequests[r].taken) =>
               /\ accountRequests[r].httpStatus = 409
               /\ ~accountRequests[r].wrote

-----------------------------------------------------------------------------
(* Properties of formatDelta *)

\* the text the claim names for a delta at or above the threshold
SignedDuration(deltaSeconds) ==
    {sign \o formatDuration(Abs(deltaSeconds)) :
        sign \in (IF GreaterThan(deltaSeconds, 0) THEN {"+"}
                  ELSE IF LessThan(deltaSeconds, 0) THEN {"-"}
                  ELSE {"+", "-"})}

BelowThreshold(deltaSeconds, thresholdSeconds) ==
    LessThan(Abs(deltaSeconds), thresholdSeconds)

AtOrAboveThreshold(deltaSeconds, thresholdSeconds) ==
    \/ GreaterThan(Abs(deltaSeconds), thresholdSeconds)
    \/ Abs(deltaSeconds) = Finite(thresholdSeconds)

\* C31 as stated: formatDelta renders the text of formatDuration(0) for
\* every delta whose absolute value is below the threshold, and for every
\* delta whose absolute value is at or above the threshold a sign ('+' for a
\* positive, '-' for a negative delta) followed by formatDuration of the
\* absolute value.
C31_ZeroBelowThresholdSignedAbove ==
    formatOutput # Null =>
        LET deltaSeconds == formatInput.deltaSeconds
            thresholdSeconds == formatInput.thresholdSeconds
        IN  /\ BelowThreshold(deltaSeconds, thresholdSeconds) =>
                   Val(formatOutput) = formatDuration(Finite(0))
            /\ AtOrAboveThreshold(deltaSeconds, thresholdSeconds) =>
                   Val(formatOutput) \in SignedDuration(deltaSeconds)

\* C31 amended: the same for every finite delta; a delta that is not finite
\* (NaN, Infinity, -Infinity) renders the dash, with no sign and no duration.
C31_FiniteZeroBelowThresholdSignedAbove ==
    formatOutput # Null =>
        LET deltaSeconds == formatInput.deltaSeconds
            thresholdSeconds == formatInput.thresholdSeconds
        IN  IF deltaSeconds.finite
            THEN /\ BelowThreshold(deltaSeconds, thresholdSeconds) =>
                        Val(formatOutput) = formatDuration(Finite(0))
                 /\ AtOrAboveThreshold(deltaSeconds, thresholdSeconds) =>
                        Val(formatOutput) \in SignedDuration(deltaSeconds)
                 /\ (thresholdSeconds = DEFAULT_THRESHOLD_SECONDS
                        /\ deltaSeconds.value \in {0, 299}) =>
                        Val(formatOutput) = "0m"
                 /\ (thresholdSeconds = DEFAULT_THRESHOLD_SECONDS
                        /\ deltaSeconds.value = -301) =>
                        Val(formatOutput) = "-5m"
            ELSE Val(formatOutput) = EM_DASH

\* a delta equal to the default threshold has been rendered with its sign
C31_Witness ==
    /\ formatOutput = Some("-5m")
    /\ formatInput.deltaSeconds = Finite(-DEFAULT_THRESHOLD_SECONDS)
    /\ formatInput.thresholdSeconds = DEFAULT_THRESHOLD_SECONDS

-----------------------------------------------------------------------------
(* Properties of the bounded retry *)

\* The errors withDbRetry retries: an initialization error, a known request
\* error with one of the codes P1001, P1002, P1017, or an error of another
\* kind whose message tells of a lost connection
Whitelisted(error) ==
    CASE error.class = "PrismaClientInitializationError" -> TRUE
      [] error.class = "PrismaClientKnownRequestError" ->
             error.code \in {"P1001", "P1002", "P1017"}
      [] OTHER -> InTransientClass(error)

\* the delay slept before retry number n, as the claim gives it
BackoffDelay(n) ==
    IF DB_RETRY_BASE_DELAY_MS * 2 ^ (n - 1) < DB_RETRY_MAX_DELAY_MS
    THEN DB_RETRY_BASE_DELAY_MS * 2 ^ (n - 1)
    ELSE DB_RETRY_MAX_DELAY_MS

\* C32: withDbRetry runs the wrapped operation at most DB_RETRY_ATTEMPTS
\* times; it returns as soon as a run resolves, every run before that having
\* failed with a whitelisted transient error; when every run fails with
\* such an error it rethrows the error of the last of DB_RETRY_ATTEMPTS runs; the
\* delay before retry n is min(DB_RETRY_MAX_DELAY_MS, DB_RETRY_BASE_DELAY_MS
\* * 2^(n-1)), so the delays never decrease.
C32_BoundedRetryWithBackoff ==
    /\ dbRetry.attempt \in 1..DB_RETRY_ATTEMPTS
    /\ Len(dbRetry.errors) <= DB_RETRY_ATTEMPTS
    /\ dbRetry.pc \in {"running", "returned"} =>
           /\ Len(dbRetry.errors) = dbRetry.attempt - 1
           /\ \A i \in 1..Len(dbRetry.errors) : Whitelisted(dbRetry.errors[i])
    /\ dbRetry.pc = "thrown" =>
           /\ Len(dbRetry.errors) = dbRetry.attempt
           /\ dbRetry.thrown = Some(dbRetry.errors[Len(dbRetry.errors)])
           /\ (\A i \in 1..Len(dbRetry.errors) : Whitelisted(dbRetry.errors[i]))
                  => Len(dbRetry.errors) = DB_RETRY_ATTEMPTS
    /\ Len(dbRetry.delays) = dbRetry.attempt - 1
    /\ \A n \in 1..Len(dbRetry.delays) :
           /\ dbRetry.delays[n] = BackoffDelay(n)
           /\ n > 1 => dbRetry.delays[n - 1] <= dbRetry.delays[n]

\* every run has failed with a whitelisted transient error: the last of
\* them is rethrown after the delays have doubled up to the cap
C32_Witness ==
    /\ dbRetry.pc = "thrown"
    /\ Len(dbRetry.errors) = DB_RETRY_ATTEMPTS
    /\ \A i \in 1..Len(dbRetry.errors) : Whitelisted(dbRetry.errors[i])
    /\ dbRetry.errors[DB_RETRY_ATTEMPTS] # dbRetry.errors[DB_RETRY_ATTEMPTS - 1]
    /\ dbRetry.delays[Len(dbRetry.delays)] = DB_RETRY_MAX_DELAY_MS
    /\ dbRetry.delays[1] = DB_RETRY_BASE_DELAY_MS

-----------------------------------------------------------------------------
(* Properties of an award call that fails part-way and is run again *)

\* the award call of the backfill for a daily row and for a weekly bucket
DailyAwardOf(row) ==
    GrantsOf("daily", [userId |-> row.user_id, periodKey |-> row.date_key,
                       status |-> toDailyStatus(row.status),
                       totalSeconds |-> row.total_seconds,
                       fetchedAt |-> row.fetched_at])

BucketAwardOf(bucket) ==
    GrantsOf("weekly", [userId |-> bucket.userId, periodKey |-> bucket.rangeKey,
                        status |-> "ok", totalSeconds |-> SumSeconds(bucket.days),
                        fetchedAt |-> bucket.fetchedAt])

\* The tuples that uninterrupted award calls leave for the first n daily rows
\* and the first n weekly buckets
DailyTuplesThrough(n) ==
    UNION {GrantTuples(DailyAwardOf(dailyRows[i])) : i \in 1..n}

BucketTuplesThrough(n) ==
    UNION {GrantTuples(BucketAwardOf(backfill.weeklyBuckets[i])) : i \in 1..n}

\* What the award calls ended so far have to leave, and what the call under
\* way may add to it
TuplesOfEndedCalls ==
    IF backfill.phase = "daily"
    THEN DailyTuplesThrough(backfill.index - 1)
    ELSE DailyTuplesThrough(Len(dailyRows)) \cup BucketTuplesThrough(backfill.index - 1)

TuplesOfCallUnderWay ==
    IF backfill.phase = "daily"
    THEN (IF backfill.index <= Len(dailyRows)
          THEN GrantTuples(DailyAwardOf(dailyRows[backfill.index])) ELSE {})
    ELSE (IF backfill.index <= Len(backfill.weeklyBuckets)
          THEN GrantTuples(BucketAwardOf(backfill.weeklyBuckets[backfill.index]))
          ELSE {})

\* C33: in a run on an empty grant store, whatever award calls failed after
\* some of their grants and were run again, the store holds exactly the
\* tuples that uninterrupted calls would have left: every tuple of the calls
\* that have ended, no tuple but those and the ones of the call under way,
\* and no tuple twice.
C33_RetriedAwardLeavesSameTuples ==
    (backfill.achievementsBefore = 0 /\ backfill.phase \in {"daily", "buckets"}) =>
        /\ TuplesOfEndedCalls \subseteq GrantTuples(achievements)
        /\ GrantTuples(achievements) \subseteq TuplesOfEndedCalls \cup TuplesOfCallUnderWay
        /\ Cardinality(GrantTuples(achievements)) = Len(achievements)

\* an award call of two grants has failed after its first grant and is
\* about to be run again
C33_Witness ==
    /\ backfill.achievementsBefore = 0
    /\ backfill.phase = "daily"
    /\ backfill.attempt = 2
    /\ Cardinality(TuplesOfCallUnderWay) = 2
    /\ Cardinality(TuplesOfCallUnderWay \cap GrantTuples(achievements)) = 1

-----------------------------------------------------------------------------
(* Properties of the weekly buckets *)

\* The ISO week of a date key, from the calendar: 2026-02-01 is the Sunday
\* of week 5, 2026-02-02 the Monday of week 6; none for a key that names no
\* day
IsoWeekOfDateKey(dateKey) ==
    CASE dateKey \in {"2026-01-31", "2026-02-01"} -> Some("2026-W05")
      [] dateKey \in {"2026-02-02", "2026-02-03"} -> Some("2026-W06")
      [] OTHER -> Null

\* the rows handed in that are ok rows of the user in the ISO week
OkRowsOf(userId, isoWeekKey) ==
    {i \in 1..Len(bucketRows) :
        /\ bucketRows[i].user_id = userId
        /\ bucketRows[i].status = "ok"
        /\ IsoWeekOfDateKey(bucketRows[i].date_key) = Some(isoWeekKey)}

RECURSIVE SumOfRows(_)
SumOfRows(indices) ==
    IF indices = {} THEN 0
    ELSE LET i == CHOOSE j \in indices : TRUE
         IN  bucketRows[i].total_seconds + SumOfRows(indices \ {i})

BucketWeeks == {"2026-W05", "2026-W06"}

\* C34: createWeeklyBucketsFromDailyHistory returns exactly one bucket for
\* every user and ISO week with an ok row of a valid date key and no other
\* bucket; the days of the bucket are exactly those rows, so the seconds
\* awarded for it are the sum of their total_seconds, and its fetchedAt is
\* the latest of their fetched_at; rows of another status or with a
\* malformed date key are in no bucket.
C34_OneBucketPerUserAndIsoWeek ==
    bucketResult # Null =>
        LET buckets == Val(bucketResult)
        IN  /\ \A userId \in {1, 2}, isoWeekKey \in BucketWeeks :
                   Cardinality({b \in 1..Len(buckets) :
                                   /\ buckets[b].userId = userId
                                   /\ buckets[b].isoWeekKey = isoWeekKey})
                       = IF OkRowsOf(userId, isoWeekKey) = {} THEN 0 ELSE 1
            /\ \A b \in 1..Len(buckets) :
                   LET bucket == buckets[b]
                       rows == OkRowsOf(bucket.userId, bucket.isoWeekKey)
                   IN  /\ bucket.userId \in {1, 2}
                       /\ bucket.isoWeekKey \in BucketWeeks
                       /\ Len(bucket.days) = Cardinality(rows)
                       /\ {bucket.days[d].dateKey : d \in 1..Len(bucket.days)}
                              = {bucketRows[i].date_key : i \in rows}
                       /\ SumSeconds(bucket.days) = SumOfRows(rows)
                       /\ \E i \in rows : bucket.fetchedAt = bucketRows[i].fetched_at
                       /\ \A i \in rows : bucket.fetchedAt >= bucketRows[i].fetched_at

\* one bucket of two days whose latest fetch is that of the first row, built
\* from rows that also hold a row with a malformed date key
C34_Witness ==
    /\ bucketResult # Null
    /\ Len(Val(bucketResult)) = 1
    /\ Len(Val(bucketResult)[1].days) = 2
    /\ Val(bucketResult)[1].fetchedAt = bucketRows[1].fetched_at
    /\ Val(bucketResult)[1].fetchedAt > bucketRows[2].fetched_at
    /\ Len(bucketRows) = 3
    /\ \E i \in 1..3 : IsoWeekOfDateKey(bucketRows[i].date_key) = Null

-----------------------------------------------------------------------------
(* Properties of the two sources of weekly awards *)

\* the ISO week of a fetch time, from the calendar of the model's clock
IsoWeekOfFetch(fetchedAt) == IF fetchedAt <= 2 THEN "2026-W05" ELSE "2026-W06"

\* A bucket derived from the daily history stands for the user, range key
\* and ISO week of the weekly row
CoveredByBucket(row) ==
    /\ row.range_key = "last_7_days"
    /\ \E i \in 1..Len(dailyRows) :
           /\ dailyRows[i].user_id = row.user_id
           /\ dailyRows[i].status = "ok"
           /\ IsoWeekOfDateKey(dailyRows[i].date_key) = Some(IsoWeekOfFetch(row.fetched_at))

\* the weekly rows among the first n that no bucket covers
ReplayedThrough(n) == {i \in 1..n : ~CoveredByBucket(weeklyRows[i])}

\* C35: in a backfill run every bucket is awarded once, and of the stored
\* weekly rows exactly those are replayed for which no bucket was awarded
\* for the same user, range key and ISO week of the row's fetchedAt: the
\* others are skipped, so no (user, range key, ISO week) is awarded from
\* both sources.
C35_WeeklyAwardedFromOneSource ==
    /\ backfill.phase = "fallback" =>
           /\ backfill.awardedWeeklyContexts =
                  {<<backfill.weeklyBuckets[b].userId, backfill.weeklyBuckets[b].rangeKey,
                     backfill.weeklyBuckets[b].isoWeekKey>> :
                       b \in 1..Len(backfill.weeklyBuckets)}
           /\ backfill.weeklyAwardsProcessed =
                  Len(backfill.weeklyBuckets)
                      + Cardinality(ReplayedThrough(backfill.index - 1))
    /\ \A i \in 1..Len(summaries) :
           summaries[i].weeklyAwardsProcessed =
               summaries[i].weeklyBuckets + Cardinality(ReplayedThrough(Len(weeklyRows)))

\* a run has ended in which one weekly row was skipped for a bucket and
\* another was replayed
C35_Witness ==
    /\ Len(summaries) >= 1
    /\ Len(weeklyRows) = 2
    /\ CoveredByBucket(weeklyRows[1])
    /\ ~CoveredByBucket(weeklyRows[2])
    /\ weeklyRows[2].status = "ok"
    /\ summaries[1].weeklyBuckets >= 1
    /\ summaries[1].weeklyAwardsProcessed = summaries[1].weeklyBuckets + 1

-----------------------------------------------------------------------------
(* Properties of the week streak *)

\* The day a key's week starts on, counted from the Monday of 2025-W01, for the
\* keys that end in four digits, "-W" and a week number from 01 to 53
WeekStartDayOf(contextKey) ==
    CASE contextKey = "2025-W52" -> Some(357)
      [] contextKey = "2025-W53" -> Some(364)
      [] contextKey = "2026-W01" -> Some(364)
      [] contextKey = "2026-W02" -> Some(371)
      [] contextKey = "weekly:2026-W02" -> Some(371)
      [] contextKey = "2026-W04" -> Some(385)
      [] OTHER -> Null

ValidWeekStartsOf(keys) ==
    {Val(WeekStartDayOf(keys[i])) :
        i \in {j \in 1..Len(keys) : WeekStartDayOf(keys[j]) # Null}}

\* The weeks first, first + 7 days, ... (length of them) are all among the starts
IsRun(starts, first, length) ==
    \A k \in 0..(length - 1) : (first + 7 * k) \in starts

LongestRun(starts) ==
    CHOOSE length \in 0..Cardinality(starts) :
        /\ length = 0 \/ \E first \in starts : IsRun(starts, first, length)
        /\ \A longer \in (length + 1)..Cardinality(starts) :
               \A first \in starts : ~IsRun(starts, first, longer)

\* C36: getLongestConsecutiveWeekStreak returns the length of the longest run of
\* distinct weeks whose starts are exactly 7 days apart among the keys that end
\* in a valid YYYY-Www; being a function of the set of those weeks, the result is
\* the same in any order of the keys, a repeated key counts once, the other keys
\* are ignored, and the result is 0 when no key is valid
C36_LongestRunOfDistinctWeeks ==
    streakResult # Null =>
        /\ Val(streakResult) = LongestRun(ValidWeekStartsOf(streakKeys))
        /\ (ValidWeekStartsOf(streakKeys) = {}) => Val(streakResult) = 0

\* Four keys out of order with one of them repeated: the run of three weeks
\* across the year boundary is found
C36_Witness ==
    /\ streakKeys = <<"2026-W02", "2026-W01", "2025-W52", "2026-W01">>
    /\ streakResult = Some(3)

-----------------------------------------------------------------------------
(* Properties of the deltas and of the self entry of a leaderboard *)

IsLeaderboard == request.kind \in {"leaderboard", "weekly_leaderboard"}

\* What the store (daily) or the weekly cache (weekly) holds for the viewer
OwnStored ==
    IF request.kind = "weekly_leaderboard" THEN weeklyCacheStats[ViewerId]
    ELSE storedStats[ViewerId]

OwnSeconds == IF OwnStored = Null THEN 0 ELSE Val(OwnStored).totalSeconds

OwnStatus == IF OwnStored = Null THEN "error" ELSE Val(OwnStored).status

OwnEntries ==
    {i \in 1..Len(request.entries) :
        request.entries[i].username = users[ViewerId].wakawarsUsername}

\* C37: in a daily or weekly leaderboard response every entry's deltaSeconds is
\* the entry's totalSeconds minus the viewer's own totalSeconds, also when the
\* viewer is not competing and is absent from the entries; the viewer is shown
\* their own real stat whatever their visibility setting; selfEntry is the
\* viewer's entry of the ranking when there is one, otherwise the viewer's stat
\* with rank null and deltaSeconds 0
C37_DeltasRelativeToViewer ==
    IsLeaderboard =>
        /\ \A i \in 1..Len(request.entries) :
               request.entries[i].deltaSeconds =
                   request.entries[i].totalSeconds - OwnSeconds
        /\ (OwnEntries # {}) <=> users[ViewerId].isCompeting
        /\ request.selfEntry # Null
        /\ Val(request.selfEntry).username = users[ViewerId].wakawarsUsername
        /\ Val(request.selfEntry).totalSeconds = OwnSeconds
        /\ Val(request.selfEntry).status = OwnStatus
        /\ IF OwnEntries # {}
           THEN \A i \in OwnEntries : Val(request.selfEntry) = request.entries[i]
           ELSE /\ Val(request.selfEntry).rank = Null
                /\ Val(request.selfEntry).deltaSeconds = 0

\* The viewer hides their stats from everyone and does not compete: the daily
\* ranking holds another user an hour behind the viewer's two hours
C37_Witness ==
    /\ request.kind = "leaderboard"
    /\ ~users[ViewerId].isCompeting
    /\ users[ViewerId].statsVisibility = "no_one"
    /\ OwnSeconds = 2 * Hour
    /\ \E i \in 1..Len(request.entries) :
           /\ request.entries[i].totalSeconds = Hour
           /\ request.entries[i].deltaSeconds = 0 - Hour
    /\ Val(request.selfEntry).rank = Null
    /\ Val(request.selfEntry).totalSeconds = 2 * Hour

-----------------------------------------------------------------------------
(* Properties of overlapping loadStats calls *)

\* A call writes only while it is the last call started and was not aborted
WriteIsByLatest ==
    \A requestId \in 1..Len(loadCalls) :
        (loadCalls[requestId].phase = "waiting"
            /\ loadCalls'[requestId].phase = "written")
        => /\ requestId = Len(loadCalls)
           /\ ~loadCalls[requestId].aborted

\* No call sent its requests while a toggle was pending with the page's
\* competitionState different from config.isCompeting
NoRequestWhileToggleOpen ==
    \A requestId \in 1..Len(loadCalls) : ~loadCalls[requestId].toggleOpen

\* Only the most recently started, unaborted loadStats call writes stats,
\* entries, self entries or error, in whatever order the calls settle
OnlyLatestCallWrites == [][WriteIsByLatest]_vars

\* C38: when several loadStats calls overlap only the most recently started call
\* may write, a response that arrives after a later call has started or after
\* its abort is discarded, and while a competition toggle is pending with
\* competitionState different from config.isCompeting loadStats issues no request
C38_LatestCallWritesAndNoneWhilePending ==
    [][WriteIsByLatest]_vars /\ []NoRequestWhileToggleOpen

\* handleRefresh was started before the toggle and its loadStats sent requests
\* while the toggle was pending
C38_StaleClosureSendsWhilePending ==
    \E requestId \in 1..Len(loadCalls) :
        /\ loadCalls[requestId].toggleOpen
        /\ loadCalls[requestId].phase = "written"
        /\ competitionPendingRef

====
